---- MODULE Spec2Model ----
(***************************************************************************)
(* Live-Translate: the speech-recognition session hook                     *)
(* (useSpeechRecognition, src/unnamed/part_000 lines 1-340) and the App    *)
(* component that drives it (src/unnamed/part_008).                        *)
(*                                                                         *)
(* The program is single threaded: every action below is one event-loop    *)
(* task (a DOM/recognizer event, a timer callback, a user action) together *)
(* with the React render and effects it causes.  Handlers are written as   *)
(* operators from a state record to a state record so that a handler that  *)
(* calls another one is their composition, in the order of the source.     *)
(*                                                                         *)
(* Time is kept relative: a pending timer holds the milliseconds left      *)
(* until it is due, and a stored timestamp is kept as its age              *)
(* (Date.now() - timestamp), saturating where the code stops comparing.    *)
(***************************************************************************)
EXTENDS Integers, Sequences, FiniteSets, TLC

VARIABLES
    \* props of useSpeechRecognition as of the last render
    isListening, language,
    \* useSpeechRecognition: state and refs
    transcript, isListeningRef, previousLanguageRef, restartTimeoutRef,
    lastFinalResultRef, lastActivityRef, watchdogIntervalRef, wasHiddenRef,
    \* the platform: the recognizer object, the document, the timer table
    recState, recLang, onresult, onerror, onend, visibilityState, timers,
    \* App: state and refs
    activeMic, myLanguage, partnerLanguage, messages, inFlight,
    lastProcessedRef, lastProcessedAtRef, silenceTimerRef, noticeTimerRef,
    previousActiveMicRef, transcriptRef, systemNotice, msgClock, silenceCleanup,
    \* lifecycle, and whether the host passed an onAutoStop callback
    mounted, autoStopCallbackRef,
    \* observation of what the handlers did (no handler reads these)
    started, startedLang, autoStopCalls, fatalSeen, trip, uncaught, faults, last,
    tick,
    \* one call of translate(): its arguments, where it stands, the requests it
    \* has made and what it resolved with
    call,
    \* stopwatches no handler reads: the recoverable fault that awaits its
    \* restart attempt with the time since it, and the time since the activation
    clock,
    \* the speaker whose speech the recognizer has captured and may yet deliver
    heard

vars == << isListening, language, transcript, isListeningRef, previousLanguageRef,
           restartTimeoutRef, lastFinalResultRef, lastActivityRef, watchdogIntervalRef,
           wasHiddenRef, recState, recLang, onresult, onerror, onend, visibilityState,
           timers, activeMic, myLanguage, partnerLanguage, messages, inFlight,
           lastProcessedRef, lastProcessedAtRef, silenceTimerRef, noticeTimerRef,
           previousActiveMicRef, transcriptRef, systemNotice, msgClock, silenceCleanup,
           mounted, autoStopCallbackRef, started, startedLang, autoStopCalls, fatalSeen,
           trip, uncaught, faults, last, tick, call, clock, heard >>

\* what no handler of the hook or of App touches: the bookkeeping of a
\* liveness run (the number of faults so far, the step taken last and a bit
\* every step flips), the call of translate(), the stopwatches and the speaker
\* heard
aside == << faults, last, tick, call, heard >>
run == << faults, last, tick, call, clock, heard >>

(***************************************************************************)
(* Bounds of the model                                                     *)
(***************************************************************************)
\* delayed start attempts (anonymous setTimeout) that may be pending at once
MaxDelayed == 1
\* faults (error events, natural ends, language changes) in a liveness run
MaxFaults == 2
\* messages after which the recognizer delivers no further result
MaxMessages == 2
\* the count of auto-stop callbacks of one inactivity episode saturates here
AutoStopCap == 2
\* times of commits (values of Date.now() that became message ids) after which
\* the recognizer of the chat delivers no further result
MaxCommitTimes == 1

(***************************************************************************)
(* Program constants                                                       *)
(***************************************************************************)
DEFAULT_RESTART_DELAY == 50
RESTART_BACKOFF_STEP == 100
RESTART_DELAY_CAP == 1000
NETWORK_RESTART_DELAY == 1200
ERROR_RESTART_DELAY == 400
LANGUAGE_RESTART_DELAY == 200
VISIBILITY_RETRY_DELAY == 200
VISIBILITY_START_DELAY == 500
SESSION_START_DELAY == 150
WATCHDOG_INTERVAL == 1000
AUTO_STOP_THRESHOLD == 10000
SILENCE_TIMEOUT_MS == 1200
SENTENCE_END_TIMEOUT_MS == 400
NOTICE_DURATION_MS == 2000
COMMIT_RECENT_MS == 3000
SCHEDULE_RECENT_MS == 2000

RECOVERABLE_ERRORS == {"no-speech", "aborted", "audio-capture", "network"}
\* error kinds the platform reports; "not-allowed" stands for the fatal ones
ErrorKinds == RECOVERABLE_ERRORS \cup {"not-allowed"}

Languages == {"ko-KR", "en-US"}
Speakers == {"me", "partner"}
NoMic == "none"

NoTimer == 0

Min(a, b) == IF a < b THEN a ELSE b

(***************************************************************************)
(* Text: a string is a sequence of one-character strings                   *)
(***************************************************************************)
Empty == << >>
IsSpace(c) == c = " "

RECURSIVE TrimStart(_)
TrimStart(s) == IF s # Empty /\ IsSpace(Head(s)) THEN TrimStart(Tail(s)) ELSE s

RECURSIVE TrimEnd(_)
TrimEnd(s) ==
    IF s # Empty /\ IsSpace(s[Len(s)]) THEN TrimEnd(SubSeq(s, 1, Len(s) - 1)) ELSE s

\* String.prototype.trim
Trim(s) == TrimEnd(TrimStart(s))

\* String.prototype.startsWith
StartsWith(s, p) == Len(p) <= Len(s) /\ SubSeq(s, 1, Len(p)) = p

\* String.prototype.slice(n)
Slice(s, n) == SubSeq(s, n + 1, Len(s))

\* SENTENCE_END_PATTERN.test: the last character is one of . ? ! or of their
\* full-width forms, written here by code point
SentenceEndChars == {".", "?", "!", "U+3002", "U+FF1F", "U+FF01"}
\* a pattern that knows the ASCII terminators only
SENTENCE_END_PATTERN_ascii(s) == s # Empty /\ s[Len(s)] \in {".", "?", "!"}
SENTENCE_END_PATTERN(s) == s # Empty /\ s[Len(s)] \in SentenceEndChars

(***************************************************************************)
(* The state as one record, so that handlers compose                       *)
(***************************************************************************)
Cur ==
    [ isListening |-> isListening, language |-> language, transcript |-> transcript,
      isListeningRef |-> isListeningRef, previousLanguageRef |-> previousLanguageRef,
      restartTimeoutRef |-> restartTimeoutRef, lastFinalResultRef |-> lastFinalResultRef,
      lastActivityRef |-> lastActivityRef, watchdogIntervalRef |-> watchdogIntervalRef,
      wasHiddenRef |-> wasHiddenRef, recState |-> recState, recLang |-> recLang,
      onresult |-> onresult, onerror |-> onerror, onend |-> onend,
      visibilityState |-> visibilityState, timers |-> timers, activeMic |-> activeMic,
      myLanguage |-> myLanguage, partnerLanguage |-> partnerLanguage,
      messages |-> messages, inFlight |-> inFlight, lastProcessedRef |-> lastProcessedRef,
      lastProcessedAtRef |-> lastProcessedAtRef, silenceTimerRef |-> silenceTimerRef,
      noticeTimerRef |-> noticeTimerRef, previousActiveMicRef |-> previousActiveMicRef,
      transcriptRef |-> transcriptRef, systemNotice |-> systemNotice,
      msgClock |-> msgClock, silenceCleanup |-> silenceCleanup, mounted |-> mounted,
      autoStopCallbackRef |-> autoStopCallbackRef, started |-> started,
      startedLang |-> startedLang, autoStopCalls |-> autoStopCalls, fatalSeen |-> fatalSeen, trip |-> trip,
      uncaught |-> uncaught ]

\* the state a task starts from: `started` tells what start() answered in the
\* task and `startedLang` the recognizer's language when it was called, "none"
\* when the task did not call it
Begin == [Cur EXCEPT !.started = "none", !.startedLang = "none"]

\* The handle of a delayed start is kept nowhere, so only how many such
\* timers there are, and how long each has left, matters: at the end of a task
\* the ids of a kind are dealt anew, 1..n in the order of the time left.
Sooner(u, t) == u.left < t.left \/ (u.left = t.left /\ u.delay < t.delay)

Alike(u, t) == [u EXCEPT !.id = 0] = [t EXCEPT !.id = 0]

Handles(T) ==
    {t \in T : t.kind \notin {"session", "visibility"}}
        \cup UNION {{[t EXCEPT !.id = i + Cardinality({u \in T : u.kind = t.kind
                                                                /\ Sooner(u, t)})] :
                        i \in 1..Cardinality({u \in T : Alike(u, t)})} :
                    t \in {u \in T : u.kind \in {"session", "visibility"}}}

Set(s) ==
    /\ isListening' = s.isListening
    /\ language' = s.language
    /\ transcript' = s.transcript
    /\ isListeningRef' = s.isListeningRef
    /\ previousLanguageRef' = s.previousLanguageRef
    /\ restartTimeoutRef' = s.restartTimeoutRef
    /\ lastFinalResultRef' = s.lastFinalResultRef
    /\ lastActivityRef' = s.lastActivityRef
    /\ watchdogIntervalRef' = s.watchdogIntervalRef
    /\ wasHiddenRef' = s.wasHiddenRef
    /\ recState' = s.recState
    /\ recLang' = s.recLang
    /\ onresult' = s.onresult
    /\ onerror' = s.onerror
    /\ onend' = s.onend
    /\ visibilityState' = s.visibilityState
    /\ timers' = Handles(s.timers)
    /\ activeMic' = s.activeMic
    /\ myLanguage' = s.myLanguage
    /\ partnerLanguage' = s.partnerLanguage
    /\ messages' = s.messages
    /\ inFlight' = s.inFlight
    /\ lastProcessedRef' = s.lastProcessedRef
    /\ lastProcessedAtRef' = s.lastProcessedAtRef
    /\ silenceTimerRef' = s.silenceTimerRef
    /\ noticeTimerRef' = s.noticeTimerRef
    /\ previousActiveMicRef' = s.previousActiveMicRef
    /\ transcriptRef' = s.transcriptRef
    /\ systemNotice' = s.systemNotice
    /\ msgClock' = s.msgClock
    /\ silenceCleanup' = s.silenceCleanup
    /\ mounted' = s.mounted
    /\ autoStopCallbackRef' = s.autoStopCallbackRef
    /\ started' = s.started
    /\ startedLang' = s.startedLang
    /\ autoStopCalls' = s.autoStopCalls
    /\ fatalSeen' = s.fatalSeen
    /\ trip' = s.trip
    /\ uncaught' = s.uncaught

(***************************************************************************)
(* The platform: window.setTimeout / setInterval / clearTimeout            *)
(***************************************************************************)
TimersOf(s, k) == {t \in s.timers : t.kind = k}

\* The browser numbers timers with integers it never reuses.  Each ref of the
\* program only ever holds ids of its own kind of timer, so an id is kept as a
\* number that is unique among the timers of its kind and the ref of that kind.
RefOf(s, kind) ==
    IF kind = "restart" THEN s.restartTimeoutRef
    ELSE IF kind = "watchdog" THEN s.watchdogIntervalRef
    ELSE IF kind = "silence" THEN s.silenceTimerRef
    ELSE IF kind = "notice" THEN s.noticeTimerRef
    ELSE NoTimer

UsedIds(s, kind) == {t.id : t \in TimersOf(s, kind)} \cup {RefOf(s, kind)}

\* the least id of `kind` that no pending timer and no ref holds
FreshId(s, kind) ==
    CHOOSE n \in 1..(Cardinality(UsedIds(s, kind)) + 1) :
        /\ n \notin UsedIds(s, kind)
        /\ \A m \in 1..(n - 1) : m \in UsedIds(s, kind)

Timer(id, kind, delay, text, sender) ==
    [id |-> id, kind |-> kind, left |-> delay, delay |-> delay, text |-> text,
     sender |-> sender]

\* window.setTimeout(callback, delay): the new timer carries id FreshId(s, kind)
setTimeout(s, kind, delay, text, sender) ==
    [s EXCEPT !.timers = @ \cup {Timer(FreshId(s, kind), kind, delay, text, sender)}]

\* window.clearTimeout(id) / window.clearInterval(id)
clearTimeout(s, kind, id) ==
    [s EXCEPT !.timers = {t \in @ : ~(t.kind = kind /\ t.id = id)}]

(***************************************************************************)
(* The platform: the SpeechRecognition object.  recState is "idle",        *)
(* "running", or "stopping" (stop() was called or an error was reported    *)
(* and the end event has not been delivered yet).                          *)
(***************************************************************************)
\* what recognition.start() does: it throws InvalidStateError unless the
\* recognizer is idle; o = "throw" is a start that fails for another reason
StartOutcome(s, o) ==
    IF s.recState # "idle" THEN "InvalidStateError"
    ELSE IF o = "throw" THEN "Error" ELSE "ok"

RecStart(s, o) ==
    IF StartOutcome(s, o) = "ok" THEN [s EXCEPT !.recState = "running"] ELSE s

\* recognition.stop(): never throws; the end event follows later
RecStop(s) == IF s.recState = "running" THEN [s EXCEPT !.recState = "stopping"] ELSE s

StartOutcomes == {"ok", "throw"}

\* the exceptions of start() the catch clause at each call site handles: all
\* four sites catch every exception
CaughtAt(site) == {"InvalidStateError", "Error"}

\* try { recognition.start() } catch ... at `site`: an exception the catch
\* clause does not handle leaves the handler
TryStart(s, site, o) ==
    [RecStart(s, o) EXCEPT
        !.started = StartOutcome(s, o),
        !.startedLang = s.recLang,
        !.uncaught = @ \/ (StartOutcome(s, o) # "ok"
                            /\ StartOutcome(s, o) \notin CaughtAt(site))]

\* lastActivityRef.current = Date.now(): the stored timestamp has age 0, and
\* a new inactivity episode begins
Touch(s) == [s EXCEPT !.lastActivityRef = 0, !.autoStopCalls = 0]

(***************************************************************************)
(* useSpeechRecognition                                                    *)
(***************************************************************************)
\* recognitionRef.current is set by the init effect and never reset
recognitionRef == TRUE

clearRestartTimeout(s) ==
    IF s.restartTimeoutRef # NoTimer
    THEN [clearTimeout(s, "restart", s.restartTimeoutRef) EXCEPT !.restartTimeoutRef = NoTimer]
    ELSE s

\* scheduleRestart that arms the new timer without cancelling the previous
scheduleRestart_keepsPrevious(s, delay) ==
    [setTimeout(s, "restart", delay, Empty, NoMic) EXCEPT
        !.restartTimeoutRef = FreshId(s, "restart")]

scheduleRestart(s, delay) ==
    LET c == clearRestartTimeout(s)
    IN  [setTimeout(c, "restart", delay, Empty, NoMic) EXCEPT
            !.restartTimeoutRef = FreshId(c, "restart")]


\* restartCallback with the InvalidStateError branch lost: "already running"
\* is handled as a failed restart
restartCallback_retryAlreadyRunning(s, t, o) ==
    LET s1 == [s EXCEPT !.restartTimeoutRef = NoTimer]
        out == StartOutcome(s1, o)
        s2 == TryStart(s1, "restart", o)
    IN  IF ~s1.isListeningRef \/ ~recognitionRef THEN s1
        ELSE IF out = "ok" THEN s2
        ELSE IF s2.isListeningRef
             THEN scheduleRestart(s2, Min(t.delay + RESTART_BACKOFF_STEP,
                                          RESTART_DELAY_CAP))
             ELSE s2

\* restartCallback that retries a failed start() after the same delay
restartCallback_sameDelay(s, t, o) ==
    LET s1 == [s EXCEPT !.restartTimeoutRef = NoTimer]
        out == StartOutcome(s1, o)
        s2 == TryStart(s1, "restart", o)
    IN  IF ~s1.isListeningRef \/ ~recognitionRef THEN s1
        ELSE IF out = "ok" THEN s2
        ELSE IF out = "InvalidStateError" THEN s2
        ELSE IF s2.isListeningRef THEN scheduleRestart(s2, t.delay)
             ELSE s2

\* the callback scheduleRestart hands to setTimeout; t is the timer that fired
restartCallback(s, t, o) ==
    LET s1 == [s EXCEPT !.restartTimeoutRef = NoTimer]
        out == StartOutcome(s1, o)
        s2 == TryStart(s1, "restart", o)
    IN  IF ~s1.isListeningRef \/ ~recognitionRef THEN s1
        ELSE IF out = "ok" THEN s2
        ELSE IF out = "InvalidStateError" THEN s2
        ELSE IF s2.isListeningRef
             THEN scheduleRestart(s2, Min(t.delay + RESTART_BACKOFF_STEP,
                                          RESTART_DELAY_CAP))
             ELSE s2

\* effect [isListening]: keep isListeningRef in sync
syncEffect(s) ==
    LET s1 == [s EXCEPT !.isListeningRef = s.isListening]
    IN  IF ~s.isListening THEN clearRestartTimeout(s1) ELSE s1

\* a delayed start of visibility recovery that gives up when start() fails
visibilityCallback_noRetry(s, o) ==
    IF ~(s.isListeningRef /\ recognitionRef) THEN s ELSE TryStart(s, "visibility", o)

\* the delayed start handleVisibilityChange schedules
visibilityCallback(s, o) ==
    LET out == StartOutcome(s, o)
        s1 == TryStart(s, "visibility", o)
    IN  IF ~(s.isListeningRef /\ recognitionRef) THEN s
        ELSE IF out = "ok" THEN s1
        ELSE IF out = "InvalidStateError" THEN s1
        ELSE scheduleRestart(s1, VISIBILITY_RETRY_DELAY)

\* a visibilitychange listener that does not look at wasHiddenRef
handleVisibilityChange_everyVisible(s) ==
    IF s.visibilityState = "hidden" THEN [s EXCEPT !.wasHiddenRef = TRUE]
    ELSE IF s.visibilityState = "visible" /\ s.isListeningRef /\ recognitionRef
    THEN setTimeout([s EXCEPT !.wasHiddenRef = FALSE], "visibility",
                    VISIBILITY_START_DELAY, Empty, NoMic)
    ELSE IF s.visibilityState = "visible" THEN [s EXCEPT !.wasHiddenRef = FALSE]
    ELSE s

\* the visibilitychange listener; s.visibilityState is the new state
handleVisibilityChange(s) ==
    IF s.visibilityState = "hidden" THEN [s EXCEPT !.wasHiddenRef = TRUE]
    ELSE IF s.visibilityState = "visible" /\ s.wasHiddenRef /\ s.isListeningRef
            /\ recognitionRef
    THEN setTimeout([s EXCEPT !.wasHiddenRef = FALSE], "visibility",
                    VISIBILITY_START_DELAY, Empty, NoMic)
    ELSE IF s.visibilityState = "visible" THEN [s EXCEPT !.wasHiddenRef = FALSE]
    ELSE s

\* a result event: results is a sequence of [isFinal, transcript]; the loop
\* of onresult from resultIndex on
RECURSIVE ConcatWhere(_, _, _)
ConcatWhere(results, i, final) ==
    IF i > Len(results) THEN Empty
    ELSE (IF results[i].isFinal = final THEN results[i].transcript ELSE Empty)
            \o ConcatWhere(results, i + 1, final)

\* onresult that accepts a final text it has accepted before
onresultHandler_noDuplicateTest(s, e) ==
    LET s1 == Touch(s)
        finalTranscript == ConcatWhere(e.results, e.resultIndex + 1, TRUE)
        interimTranscript == ConcatWhere(e.results, e.resultIndex + 1, FALSE)
    IN  IF finalTranscript # Empty
        THEN [s1 EXCEPT !.lastFinalResultRef = Trim(finalTranscript),
                        !.transcript = finalTranscript]
        ELSE IF interimTranscript # Empty
        THEN [s1 EXCEPT !.transcript = interimTranscript]
        ELSE s1

onresultHandler(s, e) ==
    LET s1 == Touch(s)
        finalTranscript == ConcatWhere(e.results, e.resultIndex + 1, TRUE)
        interimTranscript == ConcatWhere(e.results, e.resultIndex + 1, FALSE)
    IN  IF finalTranscript # Empty
        THEN IF Trim(finalTranscript) = s1.lastFinalResultRef THEN s1
             ELSE [s1 EXCEPT !.lastFinalResultRef = Trim(finalTranscript),
                             !.transcript = finalTranscript]
        ELSE IF interimTranscript # Empty
        THEN [s1 EXCEPT !.transcript = interimTranscript]
        ELSE s1

onerrorHandler(s, kind) ==
    IF ~s.isListeningRef THEN s
    ELSE IF kind \in RECOVERABLE_ERRORS
    THEN scheduleRestart(s, IF kind = "network" THEN NETWORK_RESTART_DELAY
                                                 ELSE ERROR_RESTART_DELAY)
    ELSE [RecStop(s) EXCEPT !.fatalSeen = TRUE]


\* onend that does not look at isListeningRef
onendHandler_alwaysRestarts(s) == scheduleRestart(s, DEFAULT_RESTART_DELAY)

\* onend that only clears the restart slot
onendHandler_noRestart(s) == clearRestartTimeout(s)

onendHandler(s) ==
    IF s.isListeningRef /\ recognitionRef
    THEN scheduleRestart(s, DEFAULT_RESTART_DELAY)
    ELSE clearRestartTimeout(s)

\* cleanup of the init effect (unmount)
initCleanup(s) ==
    RecStop([clearRestartTimeout(s) EXCEPT !.onend = FALSE, !.onerror = FALSE])

\* a language effect that sets the new tag without arming the restart
languageEffect_noRestart(s) ==
    IF recognitionRef /\ s.language # s.previousLanguageRef
    THEN LET wasListening == s.isListening
             s1 == IF wasListening THEN RecStop(s) ELSE s
         IN  [s1 EXCEPT !.recLang = s.language, !.previousLanguageRef = s.language]
    ELSE s

\* effect [language, isListening]
languageEffect(s) ==
    IF recognitionRef /\ s.language # s.previousLanguageRef
    THEN LET wasListening == s.isListening
             s1 == IF wasListening THEN RecStop(s) ELSE s
             s2 == [s1 EXCEPT !.recLang = s.language,
                              !.previousLanguageRef = s.language]
         IN  IF wasListening THEN scheduleRestart(s2, LANGUAGE_RESTART_DELAY) ELSE s2
    ELSE s

\* effect [isListening]: start or stop the recognizer
startStopEffect(s, o) ==
    IF s.isListening /\ recognitionRef
    THEN LET out == StartOutcome(s, o)
             s1 == TryStart(s, "activate", o)
         IN  IF out = "ok" THEN Touch(clearRestartTimeout(s1)) ELSE s1
    ELSE IF ~s.isListening /\ recognitionRef
    THEN clearRestartTimeout(RecStop(s))
    ELSE s

\* the interval callback of the watchdog effect
checkAndAutoStop(s) ==
    IF ~s.isListeningRef \/ ~recognitionRef THEN s
    ELSE IF s.lastActivityRef > AUTO_STOP_THRESHOLD
    THEN IF s.autoStopCallbackRef
         THEN [s EXCEPT !.autoStopCalls = Min(@ + 1, AutoStopCap)]
         ELSE s
    ELSE s

\* a watchdog effect that arms the interval without resetting lastActivityRef
watchdogEffect_keepsLastActivity(s) ==
    IF s.isListening
    THEN [setTimeout(s, "watchdog", WATCHDOG_INTERVAL, Empty, NoMic) EXCEPT
             !.watchdogIntervalRef = FreshId(s, "watchdog")]
    ELSE s

\* effect [isListening]: the watchdog
watchdogEffect(s) ==
    IF s.isListening
    THEN LET s1 == Touch(s)
         IN  [setTimeout(s1, "watchdog", WATCHDOG_INTERVAL, Empty, NoMic) EXCEPT
                 !.watchdogIntervalRef = FreshId(s1, "watchdog")]
    ELSE s

watchdogCleanup(s) ==
    IF s.watchdogIntervalRef # NoTimer
    THEN [clearTimeout(s, "watchdog", s.watchdogIntervalRef) EXCEPT !.watchdogIntervalRef = NoTimer]
    ELSE s

resetTranscript(s) == [s EXCEPT !.transcript = Empty, !.lastFinalResultRef = Empty]

\* the delayed start restartSession schedules
sessionCallback(s, o) ==
    LET out == StartOutcome(s, o)
        s1 == TryStart(s, "session", o)
    IN  IF ~(s.isListeningRef /\ recognitionRef) THEN s
        ELSE IF out = "ok" THEN Touch(s1)
        ELSE s1

restartSession(s) ==
    LET s1 == Touch([s EXCEPT !.transcript = Empty, !.lastFinalResultRef = Empty])
    IN  IF recognitionRef /\ s1.isListeningRef
        THEN setTimeout(RecStop(s1), "session", SESSION_START_DELAY, Empty, NoMic)
        ELSE s1

(***************************************************************************)
(* App                                                                     *)
(***************************************************************************)
\* currentLanguage and isListening, as App derives them on every render
currentLanguage(s) ==
    IF s.activeMic = "me" THEN s.myLanguage
    ELSE IF s.activeMic = "partner" THEN s.partnerLanguage
    ELSE s.myLanguage

AppProps(s) ==
    [s EXCEPT !.isListening = (s.activeMic # NoMic), !.language = currentLanguage(s)]

noticeCallback(s) == [s EXCEPT !.systemNotice = FALSE, !.noticeTimerRef = NoTimer]

\* showNotice that arms the new timer without clearing the pending one
showNotice_keepsTimer(s) ==
    LET s2 == [s EXCEPT !.systemNotice = TRUE]
    IN  [setTimeout(s2, "notice", NOTICE_DURATION_MS, Empty, NoMic) EXCEPT
            !.noticeTimerRef = FreshId(s2, "notice")]

showNotice(s) ==
    LET s1 == IF s.noticeTimerRef # NoTimer
              THEN [clearTimeout(s, "notice", s.noticeTimerRef) EXCEPT !.noticeTimerRef = NoTimer]
              ELSE s
        s2 == [s1 EXCEPT !.systemNotice = TRUE]
    IN  [setTimeout(s2, "notice", NOTICE_DURATION_MS, Empty, NoMic) EXCEPT
            !.noticeTimerRef = FreshId(s2, "notice")]


\* clearSilenceTimer that forgets the handle without window.clearTimeout
clearSilenceTimer_keepsTimer(s) == [s EXCEPT !.silenceTimerRef = NoTimer]

clearSilenceTimer(s) ==
    IF s.silenceTimerRef # NoTimer
    THEN [clearTimeout(s, "silence", s.silenceTimerRef) EXCEPT !.silenceTimerRef = NoTimer]
    ELSE s

handleDeleteMessage(s, id) ==
    [s EXCEPT !.messages = SelectSeq(@, LAMBDA m : m.id # id)]

handleClearAllMessages(s) == [s EXCEPT !.messages = << >>]

\* a number that tells apart the translations in flight
FreshCall(s) ==
    CHOOSE n \in 1..(Cardinality(s.inFlight) + 1) : n \notin {f.call : f \in s.inFlight}

\* addMockMessage up to its await: the pending message is appended under
\* tempId = Date.now().toString() and translate() is called
addMockMessage(s, text, sender, reason) ==
    [s EXCEPT !.messages = Append(@, [id |-> s.msgClock, text |-> text,
                                      sender |-> sender, translated |-> "pending"]),
              !.inFlight = @ \cup {[call |-> FreshCall(s), id |-> s.msgClock,
                                    reason |-> reason]}]

\* addMockMessage that replaces the preview only by a successful translation
translateResolved_keepsPending(s, f, result) ==
    LET update(m) == IF m.id = f.id /\ result = "ok"
                     THEN [m EXCEPT !.translated = result] ELSE m
        s1 == [s EXCEPT !.inFlight = @ \ {f},
                        !.messages = [i \in DOMAIN @ |-> update(@[i])]]
    IN  IF f.reason = "silence" THEN showNotice(s1) ELSE s1

\* addMockMessage that puts the translated message at the end of the list
translateResolved_movesLast(s, f, result) ==
    LET done == SelectSeq(s.messages, LAMBDA m : m.id = f.id)
        rest == SelectSeq(s.messages, LAMBDA m : m.id # f.id)
        s1 == [s EXCEPT !.inFlight = @ \ {f},
                        !.messages = rest \o [i \in DOMAIN done |->
                                                [done[i] EXCEPT !.translated = result]]]
    IN  IF f.reason = "silence" THEN showNotice(s1) ELSE s1

\* addMockMessage and commitTranscript after the await: translate() resolved
\* with `result` for the call f
translateResolved(s, f, result) ==
    LET update(m) == IF m.id = f.id THEN [m EXCEPT !.translated = result] ELSE m
        s1 == [s EXCEPT !.inFlight = @ \ {f},
                        !.messages = [i \in DOMAIN @ |-> update(@[i])]]
    IN  IF f.reason = "silence" THEN showNotice(s1) ELSE s1


\* commitTranscript without the merged-transcript branch
CommitText_noPrefixStrip(s, rawText) ==
    LET text == Trim(rawText)
        isRecent == s.lastProcessedAtRef < COMMIT_RECENT_MS
    IN  IF text = Empty THEN Empty
        ELSE IF s.lastProcessedRef # Empty /\ isRecent /\ text = s.lastProcessedRef
        THEN Empty
        ELSE text

\* commitTranscript that does not trim the new segment
CommitText_rawSuffix(s, rawText) ==
    LET text == Trim(rawText)
        isRecent == s.lastProcessedAtRef < COMMIT_RECENT_MS
        newSegment == Slice(text, Len(s.lastProcessedRef))
    IN  IF text = Empty THEN Empty
        ELSE IF s.lastProcessedRef = Empty THEN text
        ELSE IF isRecent /\ text = s.lastProcessedRef THEN Empty
        ELSE IF StartsWith(text, s.lastProcessedRef) THEN newSegment
        ELSE text

\* what commitTranscript commits for the candidate rawText: Empty is nothing
CommitText(s, rawText) ==
    LET text == Trim(rawText)
        isRecent == s.lastProcessedAtRef < COMMIT_RECENT_MS
        newSegment == Trim(Slice(text, Len(s.lastProcessedRef)))
    IN  IF text = Empty THEN Empty
        ELSE IF s.lastProcessedRef = Empty THEN text
        ELSE IF isRecent /\ text = s.lastProcessedRef THEN Empty
        ELSE IF StartsWith(text, s.lastProcessedRef) THEN newSegment
        ELSE text

\* commitTranscript that hands the text to the translation without clearing
\* the buffer and restarting the session first
commitTranscript_noRestart(s, rawText, sender, reason) ==
    LET text == CommitText(s, rawText)
    IN  IF text = Empty THEN s
        ELSE addMockMessage([s EXCEPT !.lastProcessedRef = text,
                                      !.lastProcessedAtRef = 0],
                            text, sender, reason)

\* commitTranscript that tests the candidate for emptiness before trimming it
commitTranscript_blankPasses(s, rawText, sender, reason) ==
    LET text == IF Trim(rawText) = Empty THEN rawText ELSE CommitText(s, rawText)
    IN  IF text = Empty THEN s
        ELSE addMockMessage(
                restartSession([s EXCEPT !.lastProcessedRef = text,
                                         !.lastProcessedAtRef = 0]),
                text, sender, reason)

commitTranscript(s, rawText, sender, reason) ==
    LET text == CommitText(s, rawText)
    IN  IF text = Empty THEN s
        ELSE addMockMessage(
                restartSession([s EXCEPT !.lastProcessedRef = text,
                                         !.lastProcessedAtRef = 0]),
                text, sender, reason)

\* the callback of the silence timer t
silenceCallback(s, t) ==
    IF t.sender = NoMic THEN s ELSE commitTranscript(s, t.text, t.sender, "silence")

\* effect [transcript]
transcriptRefEffect(s, r) == [s EXCEPT !.transcriptRef = r.transcript]

\* a speaker-switch effect that tags the flushed text with the new speaker
speakerSwitchEffect_tagsNewSpeaker(s, r) ==
    LET previous == s.previousActiveMicRef
        s1 == IF previous # NoMic /\ previous # r.activeMic
              THEN commitTranscript(clearSilenceTimer(s), s.transcriptRef, r.activeMic,
                                    "mic-off")
              ELSE s
    IN  [s1 EXCEPT !.previousActiveMicRef = r.activeMic]

\* effect [activeMic, commitTranscript, clearSilenceTimer]: flush on a switch
speakerSwitchEffect(s, r) ==
    LET previous == s.previousActiveMicRef
        s1 == IF previous # NoMic /\ previous # r.activeMic
              THEN commitTranscript(clearSilenceTimer(s), s.transcriptRef, previous,
                                    "mic-off")
              ELSE s
    IN  [s1 EXCEPT !.previousActiveMicRef = r.activeMic]

\* a silence effect without the test for the last committed text
silenceEffect_noDuplicateTest(s, r) ==
    LET trimmed == Trim(r.transcript)
        c == clearSilenceTimer(s)
        timeoutMs == IF SENTENCE_END_PATTERN(trimmed) THEN SENTENCE_END_TIMEOUT_MS
                     ELSE SILENCE_TIMEOUT_MS
    IN  IF ~r.isListening \/ r.activeMic = NoMic
        THEN [c EXCEPT !.silenceCleanup = FALSE]
        ELSE IF trimmed = Empty
        THEN [s EXCEPT !.silenceCleanup = FALSE]
        ELSE [setTimeout(c, "silence", timeoutMs, trimmed, r.activeMic) EXCEPT
                 !.silenceTimerRef = FreshId(c, "silence"), !.silenceCleanup = TRUE]

\* effect [transcript, isListening, activeMic, commitTranscript, ...]; r holds
\* the values of the render the effect belongs to
silenceEffect(s, r) ==
    LET trimmed == Trim(r.transcript)
        c == clearSilenceTimer(s)
        timeoutMs == IF SENTENCE_END_PATTERN(trimmed) THEN SENTENCE_END_TIMEOUT_MS
                     ELSE SILENCE_TIMEOUT_MS
    IN  IF ~r.isListening \/ r.activeMic = NoMic
        THEN [c EXCEPT !.silenceCleanup = FALSE]
        ELSE IF trimmed = Empty
                \/ (trimmed = s.lastProcessedRef
                    /\ s.lastProcessedAtRef < SCHEDULE_RECENT_MS)
        THEN [s EXCEPT !.silenceCleanup = FALSE]
        ELSE [setTimeout(c, "silence", timeoutMs, trimmed, r.activeMic) EXCEPT
                 !.silenceTimerRef = FreshId(c, "silence"), !.silenceCleanup = TRUE]


\* a silence effect that returns no cleanup
silenceEffectCleanup_none(s) == s

\* the cleanup the silence effect returned, if it returned one
silenceEffectCleanup(s) == IF s.silenceCleanup THEN clearSilenceTimer(s) ELSE s

(***************************************************************************)
(* React: a render and its effects.  The values a render sees are a        *)
(* snapshot; an effect runs when one of its dependencies differs from the  *)
(* previous render's; all cleanups run before all effect bodies; a state   *)
(* change made by an effect causes a further render.                       *)
(***************************************************************************)
Snapshot(s) ==
    [isListening |-> s.isListening, language |-> s.language,
     transcript |-> s.transcript, activeMic |-> s.activeMic,
     myLanguage |-> s.myLanguage, partnerLanguage |-> s.partnerLanguage]

\* a pass that runs the start/stop effect before the language effect
EffectsPass_startFirst(old, r, s, o) ==
    LET listeningChanged == r.isListening # old.isListening
        languageChanged == r.language # old.language
        transcriptChanged == r.transcript # old.transcript
        micChanged == r.activeMic # old.activeMic
        commitChanged == r.myLanguage # old.myLanguage
                            \/ r.partnerLanguage # old.partnerLanguage
        silenceDeps == transcriptChanged \/ listeningChanged \/ micChanged
                            \/ commitChanged
        c1 == IF listeningChanged THEN watchdogCleanup(s) ELSE s
        c2 == IF silenceDeps THEN silenceEffectCleanup(c1) ELSE c1
        e1 == IF listeningChanged THEN syncEffect(c2) ELSE c2
        e2 == IF listeningChanged THEN startStopEffect(e1, o) ELSE e1
        e3 == IF languageChanged \/ listeningChanged THEN languageEffect(e2) ELSE e2
        e4 == IF listeningChanged THEN watchdogEffect(e3) ELSE e3
        e5 == IF transcriptChanged THEN transcriptRefEffect(e4, r) ELSE e4
        e6 == IF micChanged \/ commitChanged THEN speakerSwitchEffect(e5, r) ELSE e5
    IN  IF silenceDeps THEN silenceEffect(e6, r) ELSE e6

EffectsPass(old, r, s, o) ==
    LET listeningChanged == r.isListening # old.isListening
        languageChanged == r.language # old.language
        transcriptChanged == r.transcript # old.transcript
        micChanged == r.activeMic # old.activeMic
        \* commitTranscript is a new function when addMockMessage is
        commitChanged == r.myLanguage # old.myLanguage
                            \/ r.partnerLanguage # old.partnerLanguage
        silenceDeps == transcriptChanged \/ listeningChanged \/ micChanged
                            \/ commitChanged
        c1 == IF listeningChanged THEN watchdogCleanup(s) ELSE s
        c2 == IF silenceDeps THEN silenceEffectCleanup(c1) ELSE c1
        e1 == IF listeningChanged THEN syncEffect(c2) ELSE c2
        e2 == IF languageChanged \/ listeningChanged THEN languageEffect(e1) ELSE e1
        e3 == IF listeningChanged THEN startStopEffect(e2, o) ELSE e2
        e4 == IF listeningChanged THEN watchdogEffect(e3) ELSE e3
        e5 == IF transcriptChanged THEN transcriptRefEffect(e4, r) ELSE e4
        e6 == IF micChanged \/ commitChanged THEN speakerSwitchEffect(e5, r) ELSE e5
    IN  IF silenceDeps THEN silenceEffect(e6, r) ELSE e6

RECURSIVE Render(_, _, _)
Render(old, s, o) ==
    IF Snapshot(s) = old THEN s
    ELSE Render(Snapshot(s), EffectsPass(old, Snapshot(s), s, o), o)

\* the end of a task that began in state `old`: React renders if the
\* component is mounted, and drops the state updates otherwise
Finish(old, s, o) ==
    IF old.mounted /\ s.mounted THEN Render(Snapshot(old), s, o)
    ELSE [s EXCEPT !.transcript = old.transcript, !.messages = old.messages,
                   !.systemNotice = old.systemNotice]

\* unmount: the cleanups of all effects
unmountCleanup(s) ==
    LET s1 == watchdogCleanup(s)
        s2 == silenceEffectCleanup(s1)
        s3 == initCleanup(s2)
        s4 == clearSilenceTimer(s3)
        s5 == IF s4.noticeTimerRef # NoTimer
              THEN [clearTimeout(s4, "notice", s4.noticeTimerRef) EXCEPT !.noticeTimerRef = NoTimer]
              ELSE s4
    IN  [s5 EXCEPT !.mounted = FALSE]

(***************************************************************************)
(* translate(text, targetLang, apiKey)                                     *)
(***************************************************************************)
NoCall == [pc |-> "idle"]

TargetLanguages == {"ko-KR", "en-US", "ja-JP", "zh-CN"}

languageCodeMap(l) ==
    CASE l = "ko-KR" -> "ko" [] l = "en-US" -> "en" [] l = "ja-JP" -> "ja"
      [] l = "zh-CN" -> "zh" [] OTHER -> "en"

\* What translate reads of its arguments: whether the text is blank, whether
\* it holds Korean, Japanese or Chinese characters, whether it contains a
\* phrase of the dictionary, the target language, whether an API key is given
Arguments ==
    {a \in [blank : BOOLEAN, korean : BOOLEAN, japanese : BOOLEAN, chinese : BOOLEAN,
            phrase : BOOLEAN, target : TargetLanguages, apiKey : BOOLEAN] :
        a.blank => ~(a.korean \/ a.japanese \/ a.chinese \/ a.phrase)}

\* the source language before the dictionary, and before MyMemory
sourceLangFirst(a) == IF a.korean THEN "ko" ELSE "en"

sourceLang(a) ==
    IF a.korean THEN "ko" ELSE IF a.japanese THEN "ja"
    ELSE IF a.chinese THEN "zh" ELSE sourceLangFirst(a)

\* how the DeepL request ends, and how the MyMemory request ends
DeepLOutcomes == {"reject", "notOk", "parseError", "noTranslations", "emptyText",
                  "translated"}
MyMemoryOutcomes == {"reject", "parseError", "badStatus", "noText", "translated"}

\* translateWithDeepL that lets the exceptions of fetch and json() through
translateWithDeepL_noCatch(o) ==
    IF o \in {"reject", "parseError"} THEN "throw"
    ELSE IF o \in {"notOk", "noTranslations"} THEN "null"
    ELSE IF o = "emptyText" THEN "empty"
    ELSE "translated"

\* what translateWithDeepL returns: null, the empty string or a translation
translateWithDeepL(o) ==
    IF o \in {"reject", "notOk", "parseError", "noTranslations"} THEN "null"
    ELSE IF o = "emptyText" THEN "empty"
    ELSE "translated"

\* translate resolves with the string `kind`
Resolve(c, kind) == [c EXCEPT !.pc = "done", !.result = kind]

\* the catch clause of translate
Caught(c) == Resolve(c, "error marker")

\* translate from "Call MyMemory API as fallback" up to its fetch
toMyMemory(c) ==
    IF sourceLang(c.args) = languageCodeMap(c.args.target) THEN Resolve(c, "text")
    ELSE [c EXCEPT !.pc = "mymemory", !.requests = Append(@, "MyMemory")]

\* translate up to its first await
translateBegin(c) ==
    LET a == c.args
        first == sourceLangFirst(a)
        code == languageCodeMap(a.target)
    IN  IF a.blank THEN Resolve(c, "text")
        ELSE IF a.phrase /\ ((first = "ko" /\ code = "en") \/ (first = "en" /\ code = "ko"))
        THEN Resolve(c, "dictionary")
        ELSE IF a.apiKey
        THEN [c EXCEPT !.pc = "deepl", !.requests = Append(@, "DeepL")]
        ELSE toMyMemory(c)

\* translate after translateWithDeepL has settled with o
afterDeepL(c, o) ==
    LET deepLResult == translateWithDeepL(o)
        c1 == [c EXCEPT !.deepL = o]
    IN  IF deepLResult = "throw" THEN Caught(c1)
        ELSE IF deepLResult = "translated" THEN Resolve(c1, "DeepL")
        ELSE toMyMemory(c1)

\* translate after the MyMemory request has settled with o
afterMyMemory(c, o) ==
    IF o \in {"reject", "parseError"} THEN Caught(c)
    ELSE IF o = "translated" THEN Resolve(c, "MyMemory")
    ELSE Resolve(c, "failure marker")

(***************************************************************************)
(* Initial state: the component is mounted, nobody is speaking             *)
(***************************************************************************)
\* the hook and App after the first render
Mounted(callback) ==
    /\ isListening = FALSE /\ language = "ko-KR"
    /\ transcript = Empty /\ isListeningRef = FALSE
    /\ previousLanguageRef = "ko-KR" /\ restartTimeoutRef = NoTimer
    /\ lastFinalResultRef = Empty /\ lastActivityRef = 0
    /\ watchdogIntervalRef = NoTimer /\ wasHiddenRef = FALSE
    /\ recState = "idle" /\ recLang = "ko-KR"
    /\ onresult = TRUE /\ onerror = TRUE /\ onend = TRUE
    /\ visibilityState = "visible" /\ timers = {}
    /\ activeMic = NoMic /\ myLanguage = "ko-KR" /\ partnerLanguage = "en-US"
    /\ messages = << >> /\ inFlight = {}
    /\ lastProcessedRef = Empty /\ lastProcessedAtRef = COMMIT_RECENT_MS
    /\ silenceTimerRef = NoTimer /\ noticeTimerRef = NoTimer
    /\ previousActiveMicRef = NoMic /\ transcriptRef = Empty
    /\ systemNotice = FALSE /\ msgClock = 0 /\ silenceCleanup = FALSE
    /\ mounted = TRUE /\ autoStopCallbackRef = callback
    /\ started = "none" /\ startedLang = "none"
    /\ autoStopCalls = 0 /\ fatalSeen = FALSE
    /\ trip = "init" /\ uncaught = FALSE
    /\ faults = 0 /\ last = "none" /\ tick = FALSE
    /\ clock = [fault |-> "none", sinceFault |-> 0, sinceActivation |-> 0]
    /\ heard = NoMic

InitWith(callback) == Mounted(callback) /\ call = NoCall

\* the hook under a host that passes onAutoStop
Init == InitWith(TRUE)
\* the hook under App, which passes no onAutoStop
AppInit == InitWith(FALSE)

(***************************************************************************)
(* Observation of the activate/deactivate round trip and of a fatal fault  *)
(***************************************************************************)
\* a change of the props: `old` is the state before it
Observe(old, s) ==
    LET activated == ~old.isListening /\ s.isListening
        deactivated == old.isListening /\ ~s.isListening
        only == old.language = s.language
    IN  [s EXCEPT !.trip = IF old.trip = "init" /\ activated /\ only THEN "active"
                           ELSE IF old.trip = "active" /\ deactivated /\ only
                           THEN "done" ELSE "dirty",
                  !.fatalSeen = IF activated THEN FALSE ELSE @]

Dirty(s) == [s EXCEPT !.trip = "dirty"]

(***************************************************************************)
(* Actions: the host of the hook                                           *)
(***************************************************************************)
\* the delayed start attempts that are pending
DelayedStarts == {t \in timers : t.kind \in {"session", "visibility"}}

\* the host renders the hook with the props isL and lang
HostRender(isL, lang, o) ==
    /\ mounted
    /\ isL # isListening \/ lang # language
    /\ Set(Finish(Begin,
                  Observe(Begin, [Begin EXCEPT !.isListening = isL, !.language = lang]),
                  o))

HostRestartSession ==
    /\ mounted
    /\ Cardinality(DelayedStarts) < MaxDelayed
    /\ Set(Finish(Begin, Dirty(restartSession(Begin)), "ok"))

HostResetTranscript ==
    /\ mounted
    /\ transcript # Empty \/ lastFinalResultRef # Empty
    /\ Set(Finish(Begin, Dirty(resetTranscript(Begin)), "ok"))

Unmount ==
    /\ mounted
    /\ Set(Dirty(unmountCleanup(Begin)))

(***************************************************************************)
(* Actions: the user of App                                                *)
(***************************************************************************)
\* the onClick of the two microphone buttons
ClickMic(who, o) ==
    /\ mounted
    /\ Set(Finish(Begin,
                  Observe(Begin,
                          AppProps([Begin EXCEPT !.activeMic =
                                        IF @ = who THEN NoMic ELSE who])),
                  o))

\* onSelectLanguage of the two LanguageSelectors
SelectLanguage(who, lang) ==
    /\ mounted
    /\ lang # (IF who = "me" THEN myLanguage ELSE partnerLanguage)
    /\ Set(Finish(Begin,
                  Dirty(AppProps(IF who = "me" THEN [Begin EXCEPT !.myLanguage = lang]
                                 ELSE [Begin EXCEPT !.partnerLanguage = lang])),
                  "ok"))

\* onDeleteMessage of a chat bubble
DeleteMessage(id) ==
    /\ mounted
    /\ \E i \in DOMAIN messages : messages[i].id = id
    /\ Set(Finish(Begin, handleDeleteMessage(Begin, id), "ok"))

\* the onClick of the clear-all button
ClearAllMessages ==
    /\ mounted
    /\ messages # << >>
    /\ Set(Finish(Begin, handleClearAllMessages(Begin), "ok"))

\* translate() resolves for the call f
TranslateDone(f, result) ==
    /\ f \in inFlight
    /\ Set(Finish(Begin, translateResolved(Begin, f, result), "ok"))

(***************************************************************************)
(* Actions: the platform                                                   *)
(***************************************************************************)
\* a visibilitychange event; the listener is removed at unmount
Visibility(v) ==
    /\ v # visibilityState
    /\ v = "visible" => Cardinality(DelayedStarts) < MaxDelayed
    /\ LET s == [Begin EXCEPT !.visibilityState = v]
       IN  Set(Finish(Begin, Dirty(IF mounted THEN handleVisibilityChange(s) ELSE s),
                      "ok"))

\* the recognizer delivers a result event (also after stop(), until it ends)
RecResult(e) ==
    /\ recState \in {"running", "stopping"}
    /\ Set(Finish(Begin, Dirty(IF onresult THEN onresultHandler(Begin, e) ELSE Begin),
                  "ok"))

\* the recognizer reports an error; its end event follows
RecError(kind) ==
    /\ recState \in {"running", "stopping"}
    /\ LET s == Dirty([Begin EXCEPT !.recState = "stopping"])
       IN  Set(Finish(Begin, IF onerror THEN onerrorHandler(s, kind) ELSE s, "ok"))

\* the end event
EndEvent ==
    LET s == [Begin EXCEPT !.recState = "idle"]
    IN  Set(Finish(Begin, IF onend THEN onendHandler(s) ELSE s, "ok"))

\* the end event that follows stop() or an error
RecEnd == recState = "stopping" /\ EndEvent

\* the recognizer ends on its own
NaturalEnd ==
    /\ recState = "running"
    /\ LET s == Dirty([Begin EXCEPT !.recState = "idle"])
       IN  Set(Finish(Begin, IF onend THEN onendHandler(s) ELSE s, "ok"))

\* a timeout that is due fires: it leaves the timer table, its callback runs
Due(t, kind) == t \in timers /\ t.kind = kind /\ t.left = 0

Fired(t) == [Begin EXCEPT !.timers = @ \ {t}]

FireRestart(t, o) ==
    Due(t, "restart") /\ Set(Finish(Begin, restartCallback(Fired(t), t, o), "ok"))

FireVisibility(t, o) ==
    Due(t, "visibility") /\ Set(Finish(Begin, visibilityCallback(Fired(t), o), "ok"))

FireSession(t, o) ==
    Due(t, "session") /\ Set(Finish(Begin, sessionCallback(Fired(t), o), "ok"))

FireSilence(t) ==
    Due(t, "silence") /\ Set(Finish(Begin, silenceCallback(Fired(t), t), "ok"))

FireNotice(t) ==
    Due(t, "notice") /\ Set(Finish(Begin, noticeCallback(Fired(t)), "ok"))

\* the watchdog interval fires and is armed again
FireWatchdog(t) ==
    /\ Due(t, "watchdog")
    /\ LET s == [Begin EXCEPT !.timers = (@ \ {t}) \cup {[t EXCEPT !.left = t.delay]}]
       IN  Set(Finish(Begin, checkAndAutoStop(s), "ok"))

\* Time passes by d milliseconds.  A timeout is never early: it can fire only
\* once its delay has elapsed (left = 0); it may fire late.
AgeCap == AUTO_STOP_THRESHOLD + 1

Max(a, b) == IF a > b THEN a ELSE b

ClockUsed(s) ==
    \/ \E i \in DOMAIN s.messages : s.messages[i].id = s.msgClock
    \/ \E f \in s.inFlight : f.id = s.msgClock

Elapse(s, d) ==
    [s EXCEPT !.timers = {[t EXCEPT !.left = Max(0, @ - d)] : t \in @},
              !.lastActivityRef = Min(@ + d, AgeCap),
              !.lastProcessedAtRef = Min(@ + d, COMMIT_RECENT_MS),
              !.msgClock = IF ClockUsed(s) THEN @ + 1 ELSE @]

Advance(d) ==
    /\ Elapse(Begin, d) # Begin
    /\ Set(Elapse(Begin, d))

(***************************************************************************)
(* Inputs                                                                  *)
(***************************************************************************)
Segment(final, text) == [isFinal |-> final, transcript |-> text]
Event(results) == [resultIndex |-> 0, results |-> results]

\* result events of the hook's specification
HookEvents == {Event(<<Segment(f, <<"a">>)>>) : f \in BOOLEAN}

TranslateResults == {"ok", "failed"}

\* the amounts of time that pass in one step
Steps == {5000}
\* the amounts of time that pass in one step under App: the windows of 2000
\* and 3000 ms of the commit controller are told apart
AppSteps == {2000}

(***************************************************************************)
(* Specifications                                                          *)
(***************************************************************************)
\* the hook under an arbitrary host; start() fails only with InvalidStateError
Next ==
    \/ \E isL \in BOOLEAN, lang \in Languages :
            HostRender(isL, lang, "ok") /\ UNCHANGED run
    \/ HostRestartSession /\ UNCHANGED run
    \/ HostResetTranscript /\ UNCHANGED run
    \/ Unmount /\ UNCHANGED run
    \/ \E e \in HookEvents : RecResult(e) /\ UNCHANGED run
    \/ \E v \in {"visible", "hidden"} : Visibility(v) /\ UNCHANGED run
    \/ \E k \in ErrorKinds : RecError(k) /\ UNCHANGED run
    \/ RecEnd /\ UNCHANGED run
    \/ NaturalEnd /\ UNCHANGED run
    \/ \E t \in timers : FireRestart(t, "ok") /\ UNCHANGED run
    \/ \E t \in timers : FireVisibility(t, "ok") /\ UNCHANGED run
    \/ \E t \in timers : FireSession(t, "ok") /\ UNCHANGED run
    \/ \E t \in timers : FireWatchdog(t) /\ UNCHANGED run
    \/ \E d \in Steps : Advance(d) /\ UNCHANGED run

Spec == Init /\ [][Next]_vars

\* The hook under a host and a platform that disturb the session at most
\* MaxFaults times (errors, natural ends, language changes); start() fails
\* only with InvalidStateError, and the watchdog callback is left out.  Every
\* step leaves its name in `last` and flips `tick`; a fault adds one to
\* `faults`.
Ran(name, fault) ==
    /\ last' = name /\ tick' = ~tick
    /\ faults' = IF fault THEN faults + 1 ELSE faults
    /\ call' = call /\ clock' = clock /\ heard' = heard

\* in one step of a liveness run every timer becomes due
LiveSteps == {AgeCap}

LiveNext ==
    \/ \E isL \in BOOLEAN, lang \in Languages :
            /\ lang # language => faults < MaxFaults
            /\ HostRender(isL, lang, "ok") /\ Ran("host", lang # language)
    \/ HostRestartSession /\ Ran("host", FALSE)
    \/ \E v \in {"visible", "hidden"} : Visibility(v) /\ Ran("host", FALSE)
    \/ \E k \in ErrorKinds : faults < MaxFaults /\ RecError(k) /\ Ran("fault", TRUE)
    \/ faults < MaxFaults /\ NaturalEnd /\ Ran("fault", TRUE)
    \/ RecEnd /\ Ran("end", FALSE)
    \/ \E t \in timers : FireRestart(t, "ok") /\ Ran("restart", FALSE)
    \/ \E t \in timers : FireVisibility(t, "ok") /\ Ran("visibility", FALSE)
    \/ \E t \in timers : FireSession(t, "ok") /\ Ran("session", FALSE)
    \/ \E d \in LiveSteps : Advance(d) /\ Ran("advance", FALSE)

\* The steps the platform owes: the end event after stop() or an error, the
\* callback of a timer that is due, the passing of time.  Each is enabled
\* exactly when its guard below holds, and a step of LiveNext carries its
\* name exactly when it is that step.
EndOwed == recState = "stopping" /\ Ran("end", FALSE)
RestartOwed == (\E t \in timers : Due(t, "restart")) /\ Ran("restart", FALSE)
VisibilityOwed == (\E t \in timers : Due(t, "visibility")) /\ Ran("visibility", FALSE)
SessionOwed == (\E t \in timers : Due(t, "session")) /\ Ran("session", FALSE)
TimeOwed == (\E d \in LiveSteps : Elapse(Begin, d) # Begin) /\ Ran("advance", FALSE)

LiveFairness ==
    /\ WF_run(EndOwed) /\ WF_run(RestartOwed) /\ WF_run(VisibilityOwed)
    /\ WF_run(SessionOwed) /\ WF_run(TimeOwed)

LiveSpec == Init /\ [][LiveNext]_vars /\ LiveFairness

\* The commit controller of App over the hook it mounts, under a user and a
\* recognizer: the translations stay in flight, and the recognizer hears
\* nothing more once MaxMessages are committed
TextA == <<"a">>
TextAB == <<"a", " ", "b">>
TextBlank == <<" ">>

AppEvents == {Event(<<Segment(f, x)>>) : f \in BOOLEAN, x \in {TextA, TextAB, TextBlank}}

AppNext ==
    \/ \E who \in Speakers : ClickMic(who, "ok") /\ UNCHANGED run
    \/ \E e \in AppEvents :
            Len(messages) < MaxMessages /\ RecResult(e) /\ UNCHANGED run
    \/ RecEnd /\ UNCHANGED run
    \/ \E t \in timers : FireRestart(t, "ok") /\ UNCHANGED run
    \/ \E t \in timers : FireSession(t, "ok") /\ UNCHANGED run
    \/ \E t \in timers : FireSilence(t) /\ UNCHANGED run
    \/ \E d \in AppSteps : Advance(d) /\ UNCHANGED run

AppSpec == AppInit /\ [][AppNext]_vars

\* The commit controller under one speaker and a recognizer that delivers
\* final results only and may deliver a text again after it was committed:
\* one result more is heard than in AppSpec
FinalEvents == {Event(<<Segment(TRUE, x)>>) : x \in {TextA, TextAB}}

RepeatNext ==
    \/ ClickMic("me", "ok") /\ UNCHANGED run
    \/ \E e \in FinalEvents :
            Len(messages) <= MaxMessages /\ RecResult(e) /\ UNCHANGED run
    \/ RecEnd /\ UNCHANGED run
    \/ \E t \in timers : FireRestart(t, "ok") /\ UNCHANGED run
    \/ \E t \in timers : FireSession(t, "ok") /\ UNCHANGED run
    \/ \E t \in timers : FireSilence(t) /\ UNCHANGED run
    \/ \E d \in AppSteps : Advance(d) /\ UNCHANGED run

RepeatSpec == AppInit /\ [][RepeatNext]_vars

\* The commit controller with its translations, under one speaker: a
\* translation in flight resolves at any time, with a translation or with the
\* failure marker
TranslateNext ==
    \/ ClickMic("me", "ok") /\ UNCHANGED run
    \/ \E e \in FinalEvents :
            Len(messages) < MaxMessages /\ RecResult(e) /\ UNCHANGED run
    \/ RecEnd /\ UNCHANGED run
    \/ \E t \in timers : FireRestart(t, "ok") /\ UNCHANGED run
    \/ \E t \in timers : FireSession(t, "ok") /\ UNCHANGED run
    \/ \E t \in timers : FireSilence(t) /\ UNCHANGED run
    \/ \E t \in timers : FireNotice(t) /\ UNCHANGED run
    \/ \E f \in inFlight, r \in TranslateResults :
            TranslateDone(f, r) /\ UNCHANGED run
    \/ \E d \in AppSteps : Advance(d) /\ UNCHANGED run

TranslateSpec == AppInit /\ [][TranslateNext]_vars

\* One call of translate with any arguments, against services that answer in
\* any way
program ==
    << isListening, language, transcript, isListeningRef, previousLanguageRef,
       restartTimeoutRef, lastFinalResultRef, lastActivityRef, watchdogIntervalRef,
       wasHiddenRef, recState, recLang, onresult, onerror, onend, visibilityState,
       timers, activeMic, myLanguage, partnerLanguage, messages, inFlight,
       lastProcessedRef, lastProcessedAtRef, silenceTimerRef, noticeTimerRef,
       previousActiveMicRef, transcriptRef, systemNotice, msgClock, silenceCleanup,
       mounted, autoStopCallbackRef, started, startedLang, autoStopCalls, fatalSeen,
       trip, uncaught, faults, last, tick, clock, heard >>

CallInit ==
    /\ \E a \in Arguments :
            call = [pc |-> "called", args |-> a, requests |-> << >>, deepL |-> "none",
                    result |-> "none"]
    /\ Mounted(FALSE)

TranslateBegin ==
    call.pc = "called" /\ call' = translateBegin(call) /\ UNCHANGED program

DeepLDone(o) ==
    call.pc = "deepl" /\ call' = afterDeepL(call, o) /\ UNCHANGED program

MyMemoryDone(o) ==
    call.pc = "mymemory" /\ call' = afterMyMemory(call, o) /\ UNCHANGED program

CallNext ==
    \/ TranslateBegin
    \/ \E o \in DeepLOutcomes : DeepLDone(o)
    \/ \E o \in MyMemoryOutcomes : MyMemoryDone(o)

CallSpec == CallInit /\ [][CallNext]_vars

\* The stopwatches: `fault` is the recoverable error the active session last
\* handled, until the restart callback calls start() or the session is
\* deactivated; k is the error handled in the step, d the time that passes in
\* it, attempt whether the restart callback called start() in it.
Track(k, d, attempt) ==
    /\ clock' =
            LET pending == IF k # "none" THEN k
                           ELSE IF attempt \/ ~isListening' \/ ~mounted' THEN "none"
                           ELSE clock.fault
            IN  [fault |-> pending,
                 sinceFault |-> IF k # "none" \/ pending = "none" THEN 0
                                ELSE Min(clock.sinceFault + d, NETWORK_RESTART_DELAY),
                 sinceActivation |-> IF ~isListening' \/ ~isListening THEN 0
                                     ELSE Min(clock.sinceActivation + d, AgeCap)]
    /\ UNCHANGED aside

Quiet == Track("none", 0, FALSE)

\* a visibilitychange event that repeats the state the document is in
RepeatedVisibility ==
    /\ mounted
    /\ Cardinality(DelayedStarts) < MaxDelayed
    /\ Set(Finish(Begin, Dirty(handleVisibilityChange(Begin)), "ok"))

\* The hook under a host and a platform whose start() may also fail for a
\* reason other than InvalidStateError, and whose visibility events may repeat
BackoffNext ==
    \/ \E isL \in BOOLEAN, lang \in Languages, o \in StartOutcomes :
            HostRender(isL, lang, o) /\ UNCHANGED run
    \/ \E v \in {"visible", "hidden"} : Visibility(v) /\ UNCHANGED run
    \/ RepeatedVisibility /\ UNCHANGED run
    \/ \E k \in ErrorKinds : RecError(k) /\ UNCHANGED run
    \/ RecEnd /\ UNCHANGED run
    \/ NaturalEnd /\ UNCHANGED run
    \/ \E t \in timers, o \in StartOutcomes : FireRestart(t, o) /\ UNCHANGED run
    \/ \E t \in timers, o \in StartOutcomes : FireVisibility(t, o) /\ UNCHANGED run
    \/ \E d \in Steps : Advance(d) /\ UNCHANGED run

BackoffSpec == Init /\ [][BackoffNext]_vars

\* the time until the next timer falls due
Soonest == {t.left : t \in timers} \ {0}
UntilNextTimer == {d \in Soonest : \A e \in Soonest : d <= e}

\* The hook under a host that only switches the session on and off and a
\* recognizer that reports errors and ends; time passes from one timer
\* falling due to the next, and the stopwatches run
RecoverNext ==
    \/ \E isL \in BOOLEAN : HostRender(isL, language, "ok") /\ Quiet
    \/ \E k \in ErrorKinds :
            /\ RecError(k)
            /\ Track(IF onerror /\ isListeningRef /\ k \in RECOVERABLE_ERRORS
                     THEN k ELSE "none", 0, FALSE)
    \/ RecEnd /\ Quiet
    \/ \E t \in timers : FireRestart(t, "ok") /\ Track("none", 0, started' # "none")
    \/ \E d \in UntilNextTimer : Advance(d) /\ Track("none", d, FALSE)

RecoverSpec == Init /\ [][RecoverNext]_vars

\* The hook with its watchdog under a host that switches the session on and
\* off, restarts it and unmounts it; every path to start() is taken, and the
\* stopwatch of the activation runs
WatchNext ==
    \/ \E isL \in BOOLEAN : HostRender(isL, language, "ok") /\ Quiet
    \/ HostRestartSession /\ Quiet
    \/ Unmount /\ Quiet
    \/ \E e \in HookEvents : RecResult(e) /\ Quiet
    \/ \E v \in {"visible", "hidden"} : Visibility(v) /\ Quiet
    \/ RecEnd /\ Quiet
    \/ NaturalEnd /\ Quiet
    \/ \E t \in timers : FireRestart(t, "ok") /\ Quiet
    \/ \E t \in timers : FireVisibility(t, "ok") /\ Quiet
    \/ \E t \in timers : FireSession(t, "ok") /\ Quiet
    \/ \E t \in timers : FireWatchdog(t) /\ Quiet
    \/ \E d \in Steps : Advance(d) /\ Track("none", d, FALSE)

WatchSpec == Init /\ [][WatchNext]_vars

\* The commit controller under one speaker and a recognizer that delivers
\* interim texts with and without punctuation
SentenceTexts ==
    {TextA, <<"a", ",">>, <<".", "a">>, <<"a", ".", " ">>}
        \cup {<<"a", c>> : c \in SentenceEndChars}

SentenceEvents == {Event(<<Segment(FALSE, x)>>) : x \in SentenceTexts}

SentenceNext ==
    \/ ClickMic("me", "ok") /\ UNCHANGED run
    \/ \E e \in SentenceEvents :
            Len(messages) < MaxMessages /\ RecResult(e) /\ UNCHANGED run
    \/ RecEnd /\ UNCHANGED run
    \/ \E t \in timers : FireRestart(t, "ok") /\ UNCHANGED run
    \/ \E t \in timers : FireSession(t, "ok") /\ UNCHANGED run
    \/ \E t \in timers : FireSilence(t) /\ UNCHANGED run
    \/ \E d \in AppSteps : Advance(d) /\ UNCHANGED run

SentenceSpec == AppInit /\ [][SentenceNext]_vars

\* The hook under a host that switches the session on and off and clears the
\* transcript, and a recognizer whose result events carry one or two
\* segments, final or interim, each with some text, from resultIndex 0 or 1
ResultEvents ==
    LET segments == {Segment(f, x) : f \in BOOLEAN, x \in {TextA, <<"a", " ">>}}
    IN  {[resultIndex |-> 0, results |-> <<r>>] : r \in segments}
            \cup {[resultIndex |-> i, results |-> <<r, q>>] :
                        i \in {0, 1}, r \in segments, q \in segments}

ResultNext ==
    \/ \E isL \in BOOLEAN : HostRender(isL, language, "ok") /\ UNCHANGED run
    \/ HostRestartSession /\ UNCHANGED run
    \/ HostResetTranscript /\ UNCHANGED run
    \/ \E e \in ResultEvents : RecResult(e) /\ UNCHANGED run
    \/ RecEnd /\ UNCHANGED run
    \/ \E t \in timers : FireRestart(t, "ok") /\ UNCHANGED run
    \/ \E t \in timers : FireSession(t, "ok") /\ UNCHANGED run
    \/ \E d \in Steps : Advance(d) /\ UNCHANGED run

ResultSpec == Init /\ [][ResultNext]_vars

\* The chat: the commit controller with its translations under one speaker
\* and a user who deletes messages and clears the chat; the recognizer hears
\* nothing more while MaxMessages messages are shown or MaxMessages
\* translations are in flight or more than MaxDelayed delayed starts are
\* pending, and once MaxCommitTimes commit times have passed
ChatNext ==
    \/ ClickMic("me", "ok") /\ UNCHANGED run
    \/ \E e \in FinalEvents :
            /\ Len(messages) < MaxMessages /\ Cardinality(inFlight) < MaxMessages
            /\ Cardinality(DelayedStarts) <= MaxDelayed /\ msgClock < MaxCommitTimes
            /\ RecResult(e) /\ UNCHANGED run
    \/ RecEnd /\ UNCHANGED run
    \/ \E t \in timers : FireRestart(t, "ok") /\ UNCHANGED run
    \/ \E t \in timers : FireSession(t, "ok") /\ UNCHANGED run
    \/ \E t \in timers : FireSilence(t) /\ UNCHANGED run
    \/ \E f \in inFlight, r \in TranslateResults :
            TranslateDone(f, r) /\ UNCHANGED run
    \/ \E i \in DOMAIN messages : DeleteMessage(messages[i].id) /\ UNCHANGED run
    \/ ClearAllMessages /\ UNCHANGED run
    \/ \E d \in AppSteps : Advance(d) /\ UNCHANGED run

ChatSpec == AppInit /\ [][ChatNext]_vars

\* The notice: the commit controller with its translations and the notice
\* timer, under one speaker and a user who may leave the page
NoticeNext ==
    \/ TranslateNext
    \/ Unmount /\ UNCHANGED run

NoticeSpec == AppInit /\ [][NoticeNext]_vars

\* what the speaker `who` says
Said(who) == IF who = "me" THEN TextA ELSE <<"b">>

\* The speaker heard: a running recognizer captures the active speaker, and a
\* stopping one may yet deliver what it captured before stop() was called
Hear ==
    /\ heard' = IF recState' = "running" THEN activeMic'
                ELSE IF recState' = "stopping"
                THEN (IF recState = "running" THEN activeMic ELSE heard)
                ELSE NoMic
    /\ UNCHANGED << faults, last, tick, call, clock >>

\* App under two speakers who take turns and choose their languages; the
\* recognizer delivers, as a final or an interim result, what the speaker it
\* has heard says
SpeakerNext ==
    \/ \E who \in Speakers : ClickMic(who, "ok") /\ Hear
    \/ \E who \in Speakers, lang \in Languages : SelectLanguage(who, lang) /\ Hear
    \/ \E f \in BOOLEAN :
            /\ heard # NoMic /\ Len(messages) < MaxMessages
            /\ RecResult(Event(<<Segment(f, Said(heard))>>)) /\ Hear
    \/ RecEnd /\ Hear
    \/ \E t \in timers : FireRestart(t, "ok") /\ Hear
    \/ \E t \in timers : FireSession(t, "ok") /\ Hear
    \/ \E t \in timers : FireSilence(t) /\ Hear
    \/ \E d \in AppSteps : Advance(d) /\ Hear

SpeakerSpec == AppInit /\ [][SpeakerNext]_vars

(***************************************************************************)
(* Properties of the recognition session                                   *)
(***************************************************************************)
RestartTimers == {t \in timers : t.kind = "restart"}

\* C1: once the last fault or natural end has occurred, a session that stays
\* active has its recognizer running again, under fair timer firing
C1_RecoveryIsLive ==
    (mounted /\ isListening /\ faults = MaxFaults)
        ~> (recState = "running" \/ ~isListening \/ ~mounted)

\* C1 witness: the last of the faults has left an active session without a
\* running recognizer
C1_Witness ==
    mounted /\ isListening /\ faults = MaxFaults /\ recState = "idle"
        /\ RestartTimers # {}

\* C2: a start() that finds the recognizer already started (InvalidStateError)
\* is a no-op at every call site: the recognizer's state is unchanged, no
\* exception leaves the hook, and every restart timer pending afterwards was
\* pending before or is the one of a language change in the same render
C2_StartWhileRunningIsNoOp ==
    [][started' = "InvalidStateError" =>
            /\ recState' = recState
            /\ ~uncaught'
            /\ \A t \in RestartTimers' :
                    \/ t \in RestartTimers
                    \/ language' # language /\ t.delay = LANGUAGE_RESTART_DELAY]_vars

\* C2 witness: the session is active, start() was called on the running
\* recognizer and it is still running
C2_Witness ==
    isListening /\ started = "InvalidStateError" /\ recState = "running"

\* C3: after a fatal error no restart timer is pending and start() is not
\* called until the host activates the session again
C3_NoRestartAfterFatal ==
    fatalSeen => (RestartTimers = {} /\ started = "none")

\* C4: an inactive session has no pending timer: restart, watchdog, silence,
\* delayed visibility start and delayed session start are all cancelled
C4_DeactivationCancelsEveryTimer ==
    ~isListening => {t \in timers : t.kind # "notice"} = {}

\* the callbacks of the recognizer, of the timers and of the document
Callback ==
    \/ \E e \in HookEvents : RecResult(e)
    \/ \E k \in ErrorKinds : RecError(k)
    \/ RecEnd
    \/ \E t \in timers : FireRestart(t, "ok")
    \/ \E t \in timers : FireVisibility(t, "ok")
    \/ \E t \in timers : FireSession(t, "ok")
    \/ \E t \in timers : FireWatchdog(t)
    \/ \E v \in {"visible", "hidden"} : Visibility(v)

\* C5: while the session is inactive a callback calls no start(), schedules
\* no restart, does not call the auto-stop callback and leaves the transcript
C5_InactiveCallbacksHaveNoEffect ==
    [][(~isListening /\ Callback) =>
            /\ started' = "none"
            /\ RestartTimers' = {}
            /\ autoStopCalls' = autoStopCalls
            /\ transcript' = transcript]_vars

\* C6: after activate then deactivate, with nothing else in between, no timer
\* is pending and onresult, onerror and onend are detached
C6_RoundTripLeavesNothing ==
    trip = "done" => (timers = {} /\ ~onresult /\ ~onerror /\ ~onend)

\* C7: in one inactivity episode the auto-stop callback is called at most once
C7_AutoStopOncePerEpisode == autoStopCalls <= 1

(***************************************************************************)
(* Properties of the commit controller                                     *)
(***************************************************************************)
SilenceTimers == {t \in timers : t.kind = "silence"}

\* the transcript is the last committed text again, inside the window of the
\* silence effect
RecentDuplicate ==
    Trim(transcript) = lastProcessedRef /\ lastProcessedAtRef < SCHEDULE_RECENT_MS

\* the text the silence commit of T appends: T, or what follows the last
\* committed text when T begins with it; Empty when nothing is appended
Remainder(T) ==
    IF lastProcessedRef # Empty /\ StartsWith(T, lastProcessedRef)
    THEN Trim(Slice(T, Len(lastProcessedRef)))
    ELSE T

\* the message appended by the step, if the step appended exactly one
Appended == messages'[Len(messages')]
AppendsOne == Len(messages') = Len(messages) + 1 /\ SubSeq(messages', 1, Len(messages)) = messages

\* C8 as written: when the commit timer of a text T that is not the last
\* committed text fires, exactly one message is appended, with text T and
\* the active speaker as sender
C8_SilenceCommitsWholeText ==
    [][\A t \in timers :
            (FireSilence(t) /\ t.text # lastProcessedRef) =>
                AppendsOne /\ Appended.text = t.text /\ Appended.sender = t.sender]_vars

\* C8 amended: a non-blank transcript T that is not a recent duplicate arms
\* one commit timer carrying trimmed T and the active speaker; the timer stays
\* pending while transcript and speaker do not change; when it fires exactly
\* one message is appended, from the active speaker, with text trimmed T, or
\* the remainder of T after the last committed text when T begins with it,
\* and nothing is appended when that remainder is empty
C8_SilenceCommit ==
    /\ [](\A t \in SilenceTimers :
            isListening /\ t.text = Trim(transcript) /\ t.sender = activeMic)
    /\ [][/\ (activeMic' # NoMic /\ transcript' # transcript
                /\ Trim(transcript') # Empty /\ ~RecentDuplicate')
             => \E t \in SilenceTimers' :
                    /\ t.text = Trim(transcript') /\ t.sender = activeMic'
                    /\ t.left = t.delay
                    /\ t.delay \in {SILENCE_TIMEOUT_MS, SENTENCE_END_TIMEOUT_MS}
          /\ \A t \in SilenceTimers :
                (transcript' = transcript /\ activeMic' = activeMic)
                    => \/ FireSilence(t)
                       \/ \E u \in SilenceTimers' :
                            u.id = t.id /\ u.text = t.text /\ u.sender = t.sender
          /\ \A t \in timers :
                FireSilence(t) =>
                    IF Remainder(t.text) = Empty THEN messages' = messages
                    ELSE /\ AppendsOne
                         /\ Appended.text = Remainder(t.text)
                         /\ Appended.sender = activeMic]_vars

\* C8 witness: the silence timer has committed "a b" whole for "me"
C8_Witness ==
    \E f \in inFlight : \E i \in DOMAIN messages :
        /\ f.reason = "silence" /\ messages[i].id = f.id
        /\ messages[i].text = TextAB /\ messages[i].sender = "me"

\* C9 as written: a result that changes the transcript while a commit timer
\* is pending commits nothing and leaves exactly one commit timer pending,
\* carrying the new transcript
C9_DebounceAlwaysCommits ==
    [][(SilenceTimers # {} /\ transcript' # transcript
            /\ \E e \in AppEvents : RecResult(e)) =>
            /\ messages' = messages
            /\ \A t \in SilenceTimers : t \notin SilenceTimers'
            /\ \E u \in SilenceTimers' :
                    SilenceTimers' = {u} /\ u.text = Trim(transcript')]_vars

\* C9 amended: a result that changes the transcript from T1 to T2 while the
\* commit timer of T1 is pending cancels that timer and commits nothing; a
\* fresh timer carrying trimmed T2 is pending afterwards exactly when T2 is
\* not blank and not a recent duplicate, and no other commit timer is
\* pending, so that T1 alone is never committed and T2 at most once
C9_Debounce ==
    [][(SilenceTimers # {} /\ transcript' # transcript
            /\ \E e \in AppEvents : RecResult(e)) =>
            /\ messages' = messages
            /\ \A u \in SilenceTimers' :
                    u.text = Trim(transcript') /\ u.left = u.delay
            /\ Cardinality(SilenceTimers') <= 1
            /\ SilenceTimers' # {} <=>
                    (Trim(transcript') # Empty
                        /\ ~RecentDuplicate')]_vars

\* C9 witness: the final "a" was superseded by the interim "a b" before
\* anything was committed, and the pending commit timer carries "a b"
C9_Witness ==
    /\ messages = << >> /\ lastFinalResultRef = TextA /\ transcript = TextAB
    /\ \E u \in SilenceTimers : u.text = TextAB

\* C10: at most one commit timer is pending; after a change of the
\* transcript or of the speaker any pending commit timer is a fresh one for
\* the new transcript and speaker, after a deactivation none is pending, and
\* a commit leaves none pending
C10_SingleCommitTimer ==
    /\ [](Cardinality(SilenceTimers) <= 1)
    /\ [][/\ (transcript' # transcript \/ activeMic' # activeMic) =>
                \A u \in SilenceTimers' :
                    /\ u.left = u.delay
                    /\ u.text = Trim(transcript') /\ u.sender = activeMic'
          /\ (isListening /\ ~isListening') => SilenceTimers' = {}
          /\ Len(messages') > Len(messages) => SilenceTimers' = {}]_vars

\* C10 witness: a commit timer is pending after a message was committed
C10_Witness == SilenceTimers # {} /\ Len(messages) > 0

(***************************************************************************)
(* Properties of the speaker switch                                        *)
(***************************************************************************)
\* the step switches the active speaker to the other party or to none
Switches == activeMic # NoMic /\ activeMic' # activeMic

\* C11 as written: a switch of the speaker over a non-blank transcript appends
\* exactly one message, from the previous speaker, and leaves the buffer empty
\* and no commit timer pending for the new speaker
C11_SwitchAlwaysCommitsOnce ==
    [][(Switches /\ Trim(transcript) # Empty) =>
            /\ AppendsOne /\ Appended.sender = activeMic
            /\ transcript' = Empty /\ SilenceTimers' = {}]_vars

\* C11 amended: a switch of the speaker over a non-blank transcript T appends
\* at most one message: none when trimmed T is the last committed text, and
\* otherwise exactly one, from the previous speaker, carrying trimmed T or its
\* remainder after the last committed text; that commit empties the buffer
\* and leaves no commit timer pending for the new speaker
C11_SwitchCommit ==
    [][(Switches /\ Trim(transcript) # Empty) =>
            IF Trim(transcript) = lastProcessedRef THEN messages' = messages
            ELSE /\ AppendsOne /\ Appended.sender = activeMic
                 /\ Appended.text = Remainder(Trim(transcript))
                 /\ transcript' = Empty /\ SilenceTimers' = {}]_vars

\* C11 witness: the partner speaks now and the text of "me" was flushed by
\* the switch
C11_Witness ==
    /\ activeMic = "partner"
    /\ \E f \in inFlight : \E i \in DOMAIN messages :
            /\ f.reason = "mic-off" /\ messages[i].id = f.id
            /\ messages[i].sender = "me" /\ messages[i].text = TextA

\* C12: a switch of the speaker over an empty or whitespace-only transcript
\* appends no message and leaves the last committed text and its time alone
C12_BlankSwitchCommitsNothing ==
    [][(Switches /\ Trim(transcript) = Empty) =>
            /\ messages' = messages
            /\ lastProcessedRef' = lastProcessedRef
            /\ lastProcessedAtRef' = lastProcessedAtRef]_vars

\* C12 witness: "me" was heard as a blank only, the speaker was switched, the
\* recognizer is being stopped for the partner's language, nothing committed
C12_Witness ==
    /\ activeMic = "partner" /\ transcript = TextBlank /\ recState = "stopping"
    /\ messages = << >> /\ lastProcessedRef = Empty

(***************************************************************************)
(* Properties of the duplicate filter                                      *)
(***************************************************************************)
\* C13: a final result whose trimmed text is the last committed text L never
\* becomes a second message: the step that puts a text into the buffer
\* appends nothing, and a commit timer or a switch whose candidate trims to L
\* appends nothing
C13_RepeatedFinalNeverCommits ==
    [][/\ (transcript' # transcript /\ transcript' # Empty) => messages' = messages
       /\ \A t \in timers :
            (FireSilence(t) /\ lastProcessedRef # Empty
                /\ Trim(t.text) = lastProcessedRef) => messages' = messages
       /\ (Switches /\ lastProcessedRef # Empty
                /\ Trim(transcript) = lastProcessedRef) => messages' = messages]_vars

\* C13 witness: the final "a" arrived again after "a" was committed and the
\* buffer cleared; its commit timer is gone and there is still one message
C13_Witness ==
    /\ activeMic = "me" /\ Len(messages) = 1 /\ messages[1].text = TextA
    /\ lastProcessedRef = TextA /\ lastFinalResultRef = TextA
    /\ transcript = TextA /\ SilenceTimers = {}
    /\ lastProcessedAtRef = COMMIT_RECENT_MS

\* the step hands the candidate T to commitTranscript: a commit timer carrying
\* T fires, or the speaker is switched over the buffer T
Commits(T) ==
    \/ \E t \in timers : t.text = T /\ FireSilence(t)
    \/ Switches /\ transcript = T

\* the candidates of the commit controller
Candidates == {t.text : t \in SilenceTimers} \cup {transcript}

\* C14: when the trimmed candidate begins with the last committed text L, the
\* commit appends exactly the trimmed text after L and makes it the last
\* committed text; when nothing is left after L, it appends nothing and L stays
C14_OnlySuffixCommitted ==
    [][\A T \in Candidates :
            (Commits(T) /\ lastProcessedRef # Empty
                /\ StartsWith(Trim(T), lastProcessedRef)) =>
                LET suffix == Trim(Slice(Trim(T), Len(lastProcessedRef)))
                IN  IF suffix = Empty
                    THEN messages' = messages /\ lastProcessedRef' = lastProcessedRef
                    ELSE /\ AppendsOne /\ Appended.text = suffix
                         /\ lastProcessedRef' = suffix]_vars

\* C14 witness: after "a" was committed the candidate "a b" was committed as
\* "b"
C14_Witness ==
    /\ Len(messages) = 2 /\ messages[1].text = TextA /\ messages[2].text = <<"b">>
    /\ lastProcessedRef = <<"b">>

\* the texts of the messages i..j, joined by single spaces
RECURSIVE Joined(_, _)
Joined(i, j) ==
    IF i = j THEN messages[i].text
    ELSE messages[i].text \o <<" ">> \o Joined(i + 1, j)

\* T is the text of one message or of successive messages
AlreadyCommitted(T) ==
    \E i \in DOMAIN messages : \E j \in DOMAIN messages : i <= j /\ Joined(i, j) = T

\* C15: a candidate whose content was committed already, as one message or
\* as successive segments, is not committed again
C15_NeverCommittedTwice ==
    [][\A T \in Candidates :
            (Commits(T) /\ AlreadyCommitted(Trim(T))) => messages' = messages]_vars

C17_CommitDoesNotWaitForTranslation ==
    [][/\ Len(messages') > Len(messages) =>
            /\ transcript' = Empty /\ lastFinalResultRef' = Empty
            /\ Appended.translated = "pending"
            /\ \E f \in inFlight' \ inFlight : f.id = Appended.id
            /\ isListening' =>
                    /\ recState' # "running"
                    /\ \E t \in timers' : t.kind = "session"
       /\ (/\ inFlight # {} /\ activeMic' # NoMic /\ transcript' # transcript
            /\ Trim(transcript') # Empty /\ ~RecentDuplicate') =>
                \E t \in SilenceTimers' : t.text = Trim(transcript')
       /\ \A T \in Candidates :
            (inFlight # {} /\ Commits(T) /\ Remainder(Trim(T)) # Empty) =>
                /\ AppendsOne /\ Appended.text = Remainder(Trim(T))
                /\ inFlight \subseteq inFlight']_vars

\* C17 witness: "b" was committed while the translation of "a" was still in
\* flight; both translations are in flight now
C17_Witness ==
    /\ Len(messages) = 2 /\ messages[1].id # messages[2].id
    /\ messages[2].text = <<"b">>
    /\ \A i \in 1..2 : /\ messages[i].translated = "pending"
                        /\ \E f \in inFlight : f.id = messages[i].id

(***************************************************************************)
(* Properties of deactivation and of the end event                         *)
(***************************************************************************)
\* C18: from the deactivation on and until the next activation, whatever
\* error, end, result, visibility or timer events arrive, the recognizer is not
\* running, the restart slot is empty and no restart timer is pending
C18_InactiveSessionHasNoRestart ==
    ~isListening =>
        /\ recState # "running"
        /\ restartTimeoutRef = NoTimer /\ RestartTimers = {}

\* C18 witness: the session was activated and deactivated, and the end event
\* of the stopped recognizer has arrived since
C18_Witness ==
    trip = "done" /\ ~isListening /\ recState = "idle" /\ restartTimeoutRef = NoTimer

\* C19: when the recognizer ends on its own in an active session, exactly one
\* restart timer is pending afterwards, freshly armed with the default delay
\* and held by the restart slot; when the end event arrives in an inactive
\* session, no restart timer is pending afterwards, the slot is empty and
\* start() was not called
C19_EndEventRestartsWhileActive ==
    [][/\ (NaturalEnd /\ mounted /\ isListening) =>
            \E t \in RestartTimers' :
                /\ RestartTimers' = {t} /\ restartTimeoutRef' = t.id
                /\ t.delay = DEFAULT_RESTART_DELAY /\ t.left = t.delay
       /\ ((RecEnd \/ NaturalEnd) /\ ~isListening) =>
            /\ RestartTimers' = {} /\ restartTimeoutRef' = NoTimer
            /\ started' = "none" /\ recState' = "idle"]_vars

\* C19 witness: the recognizer of an active session has ended and its restart
\* is pending with the default delay
C19_Witness ==
    /\ mounted /\ isListening /\ recState = "idle" /\ fatalSeen = FALSE
    /\ \E t \in RestartTimers :
            /\ restartTimeoutRef = t.id
            /\ t.delay = DEFAULT_RESTART_DELAY /\ t.left = t.delay

(***************************************************************************)
(* Properties of translate                                                 *)
(***************************************************************************)
\* the ways the DeepL attempt fails
DeepLFailures == {"reject", "notOk", "parseError", "noTranslations"}

\* what translate resolves with: always a string
Strings == {"text", "dictionary", "DeepL", "MyMemory", "failure marker", "error marker"}

Armed(t) == t.kind = "restart" /\ t.left = t.delay

RecoveryDelay(kind) ==
    IF kind = "network" THEN NETWORK_RESTART_DELAY ELSE ERROR_RESTART_DELAY

\* C23: after a recoverable error of an active session, the restart callback
\* calls start() only once the delay of the error's kind has passed since the
\* error: 1200 ms after "network", 400 ms after the others
C23_RestartWaitsForFaultDelay ==
    [][\A t \in timers :
            (clock.fault # "none" /\ FireRestart(t, "ok") /\ started' # "none") =>
                clock.sinceFault >= RecoveryDelay(clock.fault)]_vars

(***************************************************************************)
(* Properties of the watchdog                                              *)
(***************************************************************************)
WatchdogTimers == {t \in timers : t.kind = "watchdog"}

C25_EveryStartRefreshesActivity ==
    /\ [][(\E e \in HookEvents : RecResult(e)) => lastActivityRef' = 0]_vars
    /\ [][started' = "ok" => lastActivityRef' = 0]_vars

(***************************************************************************)
(* Properties of visibility recovery                                       *)
(***************************************************************************)
\* the delayed starts of visibility recovery that have their whole delay left
FreshVisibility ==
    {t \in timers : t.kind = "visibility" /\ t.left = VISIBILITY_START_DELAY}

\* the step schedules a delayed start of visibility recovery
SchedulesVisibility == Cardinality(FreshVisibility') > Cardinality(FreshVisibility)

\* the step is a visibilitychange event that tells the listener "visible"
VisibleEvent ==
    mounted /\ visibilityState' = "visible" /\ (Visibility("visible") \/ RepeatedVisibility)

\* C26: a delayed start is scheduled only by a visible event that finds
\* wasHidden set and the session active, and by every such event; a visible
\* event that finds wasHidden clear (none hidden before, or the hidden one
\* already handled) or the session inactive schedules nothing; every visible
\* event leaves wasHidden clear
C26_VisibilityActsOncePerHide ==
    [][/\ SchedulesVisibility => (VisibleEvent /\ wasHiddenRef /\ isListeningRef)
       /\ VisibleEvent =>
            /\ ~wasHiddenRef'
            /\ (wasHiddenRef /\ isListeningRef) => SchedulesVisibility]_vars

\* C26 witness: the visible event after a hidden one has scheduled the delayed
\* start of the active session and cleared wasHidden
C26_Witness ==
    /\ mounted /\ isListeningRef /\ visibilityState = "visible" /\ ~wasHiddenRef
    /\ FreshVisibility # {}

\* C27: when the delayed start of visibility recovery comes due, start() is
\* called exactly if the session is active then; a start() that answers
\* InvalidStateError changes nothing; a start() that fails otherwise leaves
\* one restart timer of 200 ms in the restart slot, armed by scheduleRestart
C27_VisibilityStartRetries ==
    [][\A t \in timers, o \in StartOutcomes :
            FireVisibility(t, o) =>
                /\ started' # "none" <=> isListeningRef
                /\ ~uncaught'
                /\ started' \in {"none", "InvalidStateError"} =>
                        /\ recState' = recState
                        /\ RestartTimers' = RestartTimers
                        /\ restartTimeoutRef' = restartTimeoutRef
                /\ started' = "ok" => recState' = "running"
                /\ started' = "Error" =>
                        \E u \in timers' :
                            /\ RestartTimers' = {u} /\ Armed(u)
                            /\ u.delay = VISIBILITY_RETRY_DELAY
                            /\ restartTimeoutRef' = u.id]_vars

\* C27 witness: long after the activation (the watchdog is due) the delayed
\* start has failed and its retry is armed
C27_Witness ==
    /\ started = "Error" /\ isListeningRef
    /\ visibilityState = "visible" /\ ~wasHiddenRef
    /\ \E w \in timers : w.kind = "watchdog" /\ w.left = 0
    /\ \E u \in RestartTimers : Armed(u) /\ u.delay = VISIBILITY_RETRY_DELAY

(***************************************************************************)
(* Properties of the commit timer                                          *)
(***************************************************************************)
\* the step arms a commit timer
ArmsSilence == \E u \in SilenceTimers' : u.left = u.delay /\ u \notin SilenceTimers

\* C28: a commit timer is armed, and is pending, only for a transcript that
\* is not blank and not the last committed text inside the recency window;
\* the step in which a commit clears the transcript arms no commit timer and
\* appends no message but the committed one
C28_NoTimerForBlankOrDuplicate ==
    /\ [](SilenceTimers # {} => (Trim(transcript) # Empty /\ ~RecentDuplicate))
    /\ [][/\ ArmsSilence => (Trim(transcript') # Empty /\ ~RecentDuplicate')
          /\ (transcript # Empty /\ transcript' = Empty) =>
                (SilenceTimers' = {} /\ AppendsOne)]_vars

\* C28 witness: after the commit of "a" the recognizer has delivered "a"
\* again inside the recency window, and no commit timer is pending
C28_Witness ==
    /\ activeMic # NoMic /\ isListening /\ transcript = TextA
    /\ RecentDuplicate /\ SilenceTimers = {} /\ Len(messages) = 1

\* the last character of T is one of . ? ! or of their full-width forms
EndsSentence(T) ==
    \E i \in DOMAIN T :
        i = Len(T) /\ T[i] \in {".", "?", "!", "U+3002", "U+FF1F", "U+FF01"}

\* C29: every commit timer is armed for the trimmed transcript, with the
\* delay of 400 ms when that text ends a sentence and of 1200 ms when not
C29_DelayFollowsSentenceEnd ==
    /\ [](\A t \in SilenceTimers :
            /\ t.text = Trim(transcript)
            /\ t.delay = IF EndsSentence(t.text) THEN 400 ELSE 1200)
    /\ [][\A u \in SilenceTimers' :
            (u.left = u.delay /\ u \notin SilenceTimers) =>
                /\ EndsSentence(Trim(transcript')) => u.delay = SENTENCE_END_TIMEOUT_MS
                /\ ~EndsSentence(Trim(transcript')) => u.delay = SILENCE_TIMEOUT_MS]_vars

\* C29 witness: the transcript ends in a full-width full stop and its commit
\* timer has the short delay
C29_Witness ==
    /\ transcript = <<"a", "U+3002">>
    /\ \E t \in SilenceTimers : t.text = transcript /\ t.delay = SENTENCE_END_TIMEOUT_MS

(***************************************************************************)
(* Properties of the result handler                                        *)
(***************************************************************************)
\* the segments of the event e from resultIndex on that are final (interim)
Picked(e, final) ==
    SelectSeq(SubSeq(e.results, e.resultIndex + 1, Len(e.results)),
              LAMBDA r : r.isFinal = final)

\* the texts of the segments, joined
RECURSIVE Flat(_)
Flat(segments) ==
    IF segments = << >> THEN Empty
    ELSE Head(segments).transcript \o Flat(Tail(segments))

LanguageChange == mounted /\ isListening /\ isListening' /\ language' # language

\* C31: a change of the language tag in an active session stops the recognizer
\* (it is not running afterwards), sets the recognizer's language to the new
\* tag and leaves one restart timer of 200 ms armed in the restart slot; a
\* step that leaves the language prop alone leaves the recognizer's language
\* alone and arms no restart of a language change; and once the disturbances
\* have ended, the recognizer of a session that stays active is running with
\* the language prop as its language
C31_LanguageChangeRestarts ==
    /\ [][LanguageChange =>
            /\ recState' # "running" /\ (recState = "running" => recState' = "stopping")
            /\ recLang' = language' /\ previousLanguageRef' = language'
            /\ \E t \in timers' :
                    /\ RestartTimers' = {t} /\ Armed(t) /\ restartTimeoutRef' = t.id
                    /\ t.delay = LANGUAGE_RESTART_DELAY]_vars
    /\ [][language' = language =>
            /\ recLang' = recLang /\ previousLanguageRef' = previousLanguageRef
            /\ \A t \in RestartTimers' :
                    (Armed(t) /\ t \notin RestartTimers) =>
                        t.delay # LANGUAGE_RESTART_DELAY]_vars
    /\ (mounted /\ isListening /\ faults = MaxFaults)
            ~> ((recState = "running" /\ recLang = language) \/ ~isListening \/ ~mounted)

\* C31 witness: the last disturbance was a change of the language of an active
\* session with a running recognizer: the recognizer is stopping, has the new
\* tag, and the restart of the language change is armed
C31_Witness ==
    /\ mounted /\ isListening /\ faults = MaxFaults /\ last = "host"
    /\ recState = "stopping" /\ language = "en-US" /\ recLang = "en-US"
    /\ \E t \in RestartTimers : Armed(t) /\ t.delay = LANGUAGE_RESTART_DELAY

(***************************************************************************)
(* Properties of the speakers                                              *)
(***************************************************************************)
\* the language of the active speaker
SpeakerLanguage == IF activeMic = "me" THEN myLanguage ELSE partnerLanguage

\* C32: whenever start() is called, at whichever call site, a speaker is
\* active and the recognizer's language at the call is that speaker's
\* language, also when the speaker is activated and the language changes in
\* one update
C32_StartUsesSpeakerLanguage ==
    started # "none" => (activeMic # NoMic /\ startedLang = SpeakerLanguage)

\* C32 witness: the partner was activated from rest, which changed the
\* language in the same update, and start() was called with the partner's tag
C32_Witness ==
    /\ started = "ok" /\ activeMic = "partner" /\ myLanguage = "ko-KR"
    /\ partnerLanguage = "en-US" /\ startedLang = "en-US" /\ messages = << >>
    /\ \E w \in timers : w.kind = "watchdog" /\ w.left = w.delay

\* C33: every message carries, as its sender, the speaker whose speech its
\* text is, also when the recognizer delivers the result after that speaker's
\* microphone was switched off or over to the other party
C33_MessageTaggedWithItsSpeaker ==
    \A i \in DOMAIN messages : messages[i].text = Said(messages[i].sender)

(***************************************************************************)
(* Properties of the start attempts                                        *)
(***************************************************************************)
\* C34: an active session whose recognizer is idle (not running, and no end
\* event outstanding) has a start attempt pending, the restart timer or a
\* delayed start, also after a start() that failed at the activation for a
\* reason other than InvalidStateError
C34_ActiveSessionIsNeverDead ==
    (mounted /\ isListening /\ recState = "idle") =>
        (RestartTimers # {} \/ DelayedStarts # {})

(***************************************************************************)
(* Properties of the recency window                                        *)
(***************************************************************************)
\* the last commit is less than 3000 ms old
InsideWindow == lastProcessedAtRef < COMMIT_RECENT_MS

\* C35 as written: a candidate equal to the last committed text is dropped
\* inside the window of 3000 ms and committed as a new message after it
C35_DuplicateCommittedAfterWindow ==
    [][\A T \in Candidates :
            (Commits(T) /\ lastProcessedRef # Empty /\ Trim(T) = lastProcessedRef) =>
                IF InsideWindow THEN messages' = messages
                ELSE AppendsOne /\ Appended.text = Trim(T)]_vars

\* C35 amended: a candidate equal to the last committed text is dropped
\* inside the window of 3000 ms and is dropped as well after it, as a
\* candidate that begins with the last committed text and has nothing after
\* it; neither the last committed text nor its time changes
C35_DuplicateDroppedAlways ==
    [][\A T \in Candidates :
            (Commits(T) /\ lastProcessedRef # Empty /\ Trim(T) = lastProcessedRef) =>
                /\ messages' = messages /\ inFlight' = inFlight
                /\ lastProcessedRef' = lastProcessedRef
                /\ lastProcessedAtRef' = lastProcessedAtRef]_vars

\* C35 witness: "a" was committed, 3000 ms or more later the recognizer
\* delivered the final "a" again, and the microphone was switched off at once:
\* the flush has committed nothing
C35_Witness ==
    /\ activeMic = NoMic /\ transcript = TextA /\ lastFinalResultRef = TextA
    /\ Len(messages) = 1 /\ messages[1].text = TextA /\ lastProcessedRef = TextA
    /\ lastProcessedAtRef = COMMIT_RECENT_MS /\ lastActivityRef = 0

(***************************************************************************)
(* Properties of the message list                                          *)
(***************************************************************************)
\* a message without its translation
Core(m) == [id |-> m.id, text |-> m.text, sender |-> m.sender]

\* the list `new` holds messages of the list `old`, in the order of `old`
Kept(old, new) ==
    \E f \in [DOMAIN new -> DOMAIN old] :
        /\ \A j \in DOMAIN new : \A k \in DOMAIN new : j < k => f[j] < f[k]
        /\ \A k \in DOMAIN new : Core(new[k]) = Core(old[f[k]])

\* C36: the messages are in the order of their commits: a step that commits
\* appends its message after all the others, and every other step keeps the
\* messages that stay in the order they had; a completing translation moves
\* no message, whichever of the translations in flight it is
C36_MessagesInCommitOrder ==
    [][/\ Len(messages') > Len(messages) => AppendsOne
       /\ Len(messages') <= Len(messages) => Kept(messages, messages')
       /\ \A f \in inFlight, r \in TranslateResults :
            TranslateDone(f, r) =>
                /\ Len(messages') = Len(messages)
                /\ \A i \in DOMAIN messages : Core(messages'[i]) = Core(messages[i])]_vars

\* C36 witness: of two messages committed at different times the later one is
\* translated while the translation of the earlier one is still in flight
C36_Witness ==
    /\ Len(messages) = 2 /\ messages[1].id < messages[2].id
    /\ messages[1].translated = "pending" /\ messages[2].translated = "ok"
    /\ \E f \in inFlight : f.id = messages[1].id

\* the positions of the list at which the step changes the message
Changed == {i \in DOMAIN messages : i \in DOMAIN messages' /\ messages'[i] # messages[i]}

\* C37: a completing translation changes at most one message, the one it was
\* started for, and of that message only the translation; it adds and removes
\* no message, so that a message deleted or cleared while its translation was
\* in flight does not come back
C37_CompletionTouchesItsMessageOnly ==
    [][\A f \in inFlight, r \in TranslateResults :
            TranslateDone(f, r) =>
                /\ Len(messages') = Len(messages)
                /\ Cardinality(Changed) <= 1
                /\ \A i \in Changed :
                        /\ messages[i].id = f.id
                        /\ messages'[i] = [messages[i] EXCEPT !.translated = r]
                /\ (\A i \in DOMAIN messages : messages[i].id # f.id) =>
                        messages' = messages]_vars

(***************************************************************************)
(* Properties of the system notice                                         *)
(***************************************************************************)
NoticeTimers == {t \in timers : t.kind = "notice"}

\* C38: the notice has one slot.  At most one notice timer is pending, it is
\* the one noticeTimerRef holds and it runs for NOTICE_DURATION_MS; while the
\* component is mounted a notice is shown only while a notice timer is
\* pending.  A commit by silence whose translation completes shows the notice
\* and arms the timer with the full duration; the notice is taken away only by
\* the notice timer, when its duration has elapsed, and the firing timer
\* leaves no notice, no timer and an empty slot; between the two the time left
\* on the timer only goes down.
C38_NoticeSingleSlot ==
    /\ [](/\ Cardinality(NoticeTimers) <= 1
          /\ \A t \in NoticeTimers :
                t.id = noticeTimerRef /\ t.delay = NOTICE_DURATION_MS
          /\ noticeTimerRef # NoTimer => NoticeTimers # {}
          /\ (mounted /\ systemNotice) => NoticeTimers # {})
    /\ [][/\ \A f \in inFlight, r \in TranslateResults :
                (TranslateDone(f, r) /\ f.reason = "silence") =>
                    /\ \E t \in NoticeTimers' : t.left = NOTICE_DURATION_MS
                    /\ mounted' => systemNotice'
          /\ (mounted /\ mounted' /\ systemNotice /\ ~systemNotice') =>
                /\ \E t \in NoticeTimers : t.left = 0
                /\ NoticeTimers' = {} /\ noticeTimerRef' = NoTimer
          /\ \A t \in timers :
                (FireNotice(t) /\ mounted) =>
                    ~systemNotice' /\ NoticeTimers' = {} /\ noticeTimerRef' = NoTimer
          /\ \A t \in NoticeTimers : \A u \in NoticeTimers' :
                u.left <= t.left \/ u.left = NOTICE_DURATION_MS]_vars

\* C38 witness: the notice of an earlier commit is showing, with time already
\* gone from its timer, while the translation of a second commit by silence
\* is about to complete and show the notice again
C38_Witness ==
    /\ mounted /\ systemNotice
    /\ \E t \in NoticeTimers : t.left < NOTICE_DURATION_MS
    /\ \E f \in inFlight : f.reason = "silence"

====
